---- MODULE Spec2Model ----
(***************************************************************************)
(* MasterTree (src/src/mastertree.rs): a randomized treap over a           *)
(* reference-counted node heap with lazy propagation, lazy reversal and    *)
(* copy-on-write sharing, driven by the additive manager of tests::add_sum *)
(* or, for what the tree promises of an op that does not commute, by a     *)
(* manager whose op is the concatenation of values.                        *)
(*                                                                         *)
(* A handle (NodeWrapper) is a node id, 0 standing for None.  The heap is  *)
(* a sequence of Node records; rc is the strong count of the node's Rc.    *)
(* usize values are kept as small integers: a negative integer r stands    *)
(* for the wrapped value 2^64 + r that a release build computes where a    *)
(* debug build panics.  A 64-bit word of the generator is kept as its four *)
(* 16-bit limbs, the lowest first.                                         *)
(***************************************************************************)
EXTENDS Integers, Sequences, FiniteSets, TLC

VARIABLES heap, trees, ghost, it, last, snap, nins, nops, build, aborted, mgr

vars == <<heap, trees, ghost, it, last, snap, nins, nops, build, aborted, mgr>>

\* ---------------------------------------------------------------- bounds
MaxLen == 3
MaxOps == 3
MaxCalls == 4
MaxPast == 2
MaxFill == 5
MaxBend == 1
Lazys == {1}
NumSlots == 2
Slots == 1..NumSlots
None == 0
\* no iterator: an iterator is the tree it borrows, its stack of nodes with
\* their lengths, the length it reports and the items it has yielded
NoIter == [t |-> 0, stack |-> <<>>, n |-> 0, out |-> <<>>]

\* ---------------------------------------------------------------- control flow
\* let x = r; k(x)
With(r, K(_)) == K(r)

\* a panic, h being the heap as the panic finds it: what the call has written
\* through its references stays written
Bad(h) == [ok |-> FALSE, h |-> h]

\* a panic in a call that works on a slot through &mut and draws from the
\* generator: id is the handle the slot holds when the panic is raised (None
\* when the handle was taken out of it), k the number of draws made
Fail(h, id, k) == [ok |-> FALSE, h |-> h, id |-> id, k |-> k]

\* a panic in the call that gave r unwinds through the caller; otherwise the
\* caller goes on with its result
Then(r, K(_)) == IF ~r.ok THEN r ELSE K(r)

\* the same, F giving what the panic leaves of the caller's own slot
Else(r, F(_), K(_)) == IF ~r.ok THEN F(r) ELSE K(r)

\* x is usize arithmetic: its panic is the panic f of the caller
Try(x, f, K(_)) == IF ~x.ok THEN f ELSE K(x)

\* ---------------------------------------------------------------- usize
\* unsigned comparison of two usize values
ULt(a, b) == IF (a < 0) = (b < 0) THEN a < b ELSE b < 0

ULe(a, b) == a = b \/ ULt(a, b)

\* a - b on usize: overflow checks panic in a debug build and wrap otherwise
USub(dbg, a, b) == [ok |-> ~(dbg /\ ULt(a, b)), v |-> a - b]

\* usize::MAX
UMax == -1

\* a + b on usize, wrapping around
WrappingAdd(a, b) == [ok |-> TRUE, v |-> a + b]

\* a.checked_add(b).expect(..): a panic in every build when a + b > usize::MAX
CheckedAdd(a, b) ==
    [ok |-> ~((a < 0 /\ b < 0) \/ ((a < 0) # (b < 0) /\ a + b >= 0)), v |-> a + b]

\* len - 1 - idx, evaluated left to right
USub1(dbg, len, idx) == Then(USub(dbg, len, 1), LAMBDA x : USub(dbg, x.v, idx))

\* a + b on usize: overflow checks panic in a debug build and wrap otherwise
UAdd(dbg, a, b) ==
    [ok |-> ~(dbg /\ ((a < 0 /\ b < 0) \/ ((a < 0) # (b < 0) /\ a + b >= 0))), v |-> a + b]

\* x - (idx + 1), the sum first
USubSucc(dbg, x, idx) == Then(UAdd(dbg, idx, 1), LAMBDA s : USub(dbg, x, s.v))

\* ---------------------------------------------------------------- Rng
\* SEED, the hash of the bytes of mastertree.rs: the state of Rng::new()
Seed == <<61581, 9995, 32338, 14063>>

\* a generator whose state is left open: each of its draws is any word
AnyRng == <<-1, -1, -1, -1>>

\* the least and the greatest word
Lo == <<0, 0, 0, 0>>

Hi == <<65535, 65535, 65535, 65535>>

\* a ^ b on the bits of two limbs
RECURSIVE BitXor(_, _)
BitXor(a, b) ==
    IF a = 0 THEN b
    ELSE IF b = 0 THEN a
    ELSE ((a + b) % 2) + 2 * BitXor(a \div 2, b \div 2)

\* x ^ y on two words
Xor(x, y) ==
    <<BitXor(x[1], y[1]), BitXor(x[2], y[2]), BitXor(x[3], y[3]), BitXor(x[4], y[4])>>

\* the limb of x << s made of the limb hi and the top bits of the limb lo below it
Up(lo, hi, s) == ((hi * 2^s) % 65536) + (lo \div 2^(16 - s))

\* the limb of x >> s made of the limb lo and the low bits of the limb hi above it
Down(lo, hi, s) == (lo \div 2^s) + ((hi % 2^s) * 2^(16 - s))

\* x << s and x >> s on a u64, for 0 < s < 16
Shl(x, s) == <<Up(0, x[1], s), Up(x[1], x[2], s), Up(x[2], x[3], s), Up(x[3], x[4], s)>>

Shr(x, s) ==
    <<Down(x[1], x[2], s), Down(x[2], x[3], s), Down(x[3], x[4], s), Down(x[4], 0, s)>>

\* Rng::gen: the state after the call, which is the word drawn
Gen(x) == With(Xor(x, Shl(x, 7)), LAMBDA y : Xor(y, Shr(y, 9)))

\* Rng::make, on a copy of the generator x: the generator made
Make(x) ==
    IF x = AnyRng THEN AnyRng
    ELSE With(Gen(x), LAMBDA g : With(Xor(g, Shr(g, 7)), LAMBDA r : Xor(r, Shl(r, 9))))

\* the next n draws of the generator x, in order
RECURSIVE Words(_, _)
Words(x, n) ==
    IF n = 0 THEN <<>>
    ELSE IF n = 1 THEN <<Gen(x)>>
    ELSE With(Words(x, n \div 2), LAMBDA a : a \o Words(a[Len(a)], n - (n \div 2)))

\* a usize as a word
Word(a) ==
    IF a >= 0 THEN <<a % 65536, a \div 65536, 0, 0>>
    ELSE <<65536 + a, 65535, 65535, 65535>>

\* x < y on two words
LtW(x, y) == \E i \in 1..4 : x[i] < y[i] /\ \A j \in (i + 1)..4 : x[j] = y[j]

\* w * m as a u128, for 0 <= m < 2^15: hi is the part above 2^64, low tells
\* whether a part below 2^64 is left
MulCarry(w, m) ==
    LET c1 == (w[1] * m) \div 65536
        c2 == (w[2] * m + c1) \div 65536
        c3 == (w[3] * m + c2) \div 65536
    IN [hi |-> (w[4] * m + c3) \div 65536,
        low |-> \/ (w[1] * m) % 65536 # 0
                \/ (w[2] * m + c1) % 65536 # 0
                \/ (w[3] * m + c2) % 65536 # 0
                \/ (w[4] * m + c3) % 65536 # 0]

\* w - d on a u64, for 0 <= d <= w and d < 2^16
SubW(w, d) ==
    IF w[1] >= d THEN <<w[1] - d, w[2], w[3], w[4]>>
    ELSE IF w[2] > 0 THEN <<w[1] - d + 65536, w[2] - 1, w[3], w[4]>>
    ELSE IF w[3] > 0 THEN <<w[1] - d + 65536, 65535, w[3] - 1, w[4]>>
    ELSE <<w[1] - d + 65536, 65535, 65535, w[4] - 1>>

\* (w as u128 * s as u128 >> 64) as usize; of a wrapped s = 2^64 - m, the
\* product w * 2^64 - w * m
MulHi(w, s) ==
    IF s >= 0 THEN Word(MulCarry(w, s).hi)
    ELSE With(MulCarry(w, -s), LAMBDA p : SubW(w, p.hi + (IF p.low THEN 1 ELSE 0)))

\* Rng::choose(a, b) on the word w that gen draws, v being the choice: the
\* word is drawn before a + b is computed
Choose(dbg, a, b, w) ==
    Then(UAdd(dbg, a, b), LAMBDA s : [ok |-> TRUE, v |-> LtW(MulHi(w, s.v), Word(a))])

\* the k-th draw of a tape of words; a tape is as long as the draws of the
\* call it is given to
Coin(tape, k) == tape[k]

\* the generator x after k draws, which were the first k words of tape
After(x, tape, k) == IF x = AnyRng \/ k = 0 THEN x ELSE tape[k]

\* ---------------------------------------------------------------- manager M
\* mgr = "add": the manager M of tests::add_sum, T = i32, Info = (sum, pending
\* amount), Prod = i32 under +.  mgr = "cat": T = Prod = a sequence of labels
\* under concatenation, Info = (the subtree's values in order, nothing pending),
\* no Lazy to apply.
\* make_info leaving the right child out
MakeInfoNoRight(left, mid, right) ==
    [sum |-> (IF left = <<>> THEN 0 ELSE left.sum) + mid, lz |-> 0]

\* M::make_info on the children's Info (or None, written as <<>>) and the value
MakeInfo(left, mid, right) ==
    IF mgr = "add"
    THEN [sum |-> (IF left = <<>> THEN 0 ELSE left.sum) + mid
                  + (IF right = <<>> THEN 0 ELSE right.sum),
          lz |-> 0]
    ELSE [sum |-> (IF left = <<>> THEN <<>> ELSE left.sum) \o mid
                  \o (IF right = <<>> THEN <<>> ELSE right.sum),
          lz |-> 0]

\* M::rev: nothing to do for a sum; a concatenation is read backwards
Rev(info, len) ==
    IF mgr = "add" THEN info
    ELSE [info EXCEPT !.sum = [j \in 1..Len(@) |-> @[Len(@) + 1 - j]]]

\* M::apply_info
ApplyInfo(info, len, lazy) == [sum |-> info.sum + lazy * len, lz |-> info.lz + lazy]

\* M::apply_val
ApplyVal(val, lazy) == val + lazy

\* M::e and M::op
E == IF mgr = "add" THEN 0 ELSE <<>>

Op(a, b) == IF mgr = "add" THEN a + b ELSE a \o b

\* ---------------------------------------------------------------- Rc
InfoOf(h, id) == IF id = None THEN <<>> ELSE h[id].info

\* Rc::clone
IncRc(h, id) == IF id = None THEN h ELSE [h EXCEPT ![id].rc = @ + 1]

\* drop of a handle: the node is freed, and the handles it holds dropped, at
\* count 0; the freed memory keeps what it held
RECURSIVE DropRc(_, _)
DropRc(h, id) ==
    IF id = None THEN h
    ELSE IF h[id].rc > 1 THEN [h EXCEPT ![id].rc = @ - 1]
    ELSE DropRc(DropRc([h EXCEPT ![id].rc = 0], h[id].left), h[id].right)

\* NodeWrapper::as_mut: the node itself when uniquely owned, else a fresh
\* shallow copy that replaces the handle
AsMut(h, id) ==
    IF h[id].rc = 1 THEN [h |-> h, id |-> id]
    ELSE With(Append([IncRc(IncRc(h, h[id].left), h[id].right)
                         EXCEPT ![id].rc = IF @ > 0 THEN @ - 1 ELSE @],
                     [h[id] EXCEPT !.rc = 1]),
              LAMBDA h3 : [h |-> h3, id |-> Len(h3)])

AsMutOpt(h, id) == IF id = None THEN [h |-> h, id |-> None] ELSE AsMut(h, id)

\* NodeWrapper::new
NewNode(h, item) ==
    [ok |-> TRUE,
     h |-> Append(h, [val |-> item, info |-> MakeInfo(<<>>, item, <<>>), idx |-> 0,
                      rev |-> FALSE, left |-> None, right |-> None, rc |-> 1]),
     id |-> Len(h) + 1]

\* ---------------------------------------------------------------- Node
\* M::propagate on a child of a node whose pending amount is z: None stays None
Pushed(h, child, z, len) ==
    IF child = None THEN h
    ELSE [h EXCEPT ![child].info = [sum |-> @.sum + z * len, lz |-> @.lz + z]]

\* M::propagate that pushes the pending amount and keeps it
PropagateKeepLazy(h, id, llen, rlen) ==
    Pushed(Pushed([h EXCEPT ![id].val = @ + h[id].info.lz],
                  h[id].left, h[id].info.lz, llen),
           h[id].right, h[id].info.lz, rlen)

\* M::propagate on node id, whose children are uniquely owned
Propagate(h, id, llen, rlen) ==
    IF mgr # "add" THEN h ELSE
    Pushed(Pushed([h EXCEPT ![id].val = @ + h[id].info.lz, ![id].info.lz = 0],
                  h[id].left, h[id].info.lz, llen),
           h[id].right, h[id].info.lz, rlen)

\* the reversal flag of a child toggled through as_mut; id is the handle left
Toggled(a) ==
    IF a.id = None THEN a ELSE [h |-> [a.h EXCEPT ![a.id].rev = ~@], id |-> a.id]

\* the reversal branch of Node::setup: M::rev, the swap and the toggles are
\* done when len - idx - 1 is computed
Flip(dbg, h, id, len) ==
    With(Toggled(AsMutOpt(h, h[id].right)), LAMBDA a :
    With(Toggled(AsMutOpt(a.h, h[id].left)), LAMBDA b :
    With([b.h EXCEPT ![id].info = Rev(@, len), ![id].left = a.id, ![id].right = b.id],
         LAMBDA h2 :
    Try(USub(dbg, len, h[id].idx), Bad(h2), LAMBDA x :
    Try(USub(dbg, x.v, 1), Bad(h2), LAMBDA y :
        [ok |-> TRUE, h |-> [h2 EXCEPT ![id].idx = y.v, ![id].rev = FALSE]])))))

\* Node::setup, in place on node id: both children are made unique before
\* len - 1 - idx is computed for M::propagate
NodeSetup(dbg, h, id, len) ==
    With(AsMutOpt(h, h[id].left), LAMBDA a :
    With(AsMutOpt([a.h EXCEPT ![id].left = a.id], h[id].right), LAMBDA b :
    With([b.h EXCEPT ![id].right = b.id], LAMBDA h2 :
    Try(USub1(dbg, len, h[id].idx), Bad(h2), LAMBDA rl :
    With(Propagate(h2, id, h[id].idx, rl.v), LAMBDA h3 :
        IF h3[id].rev THEN Flip(dbg, h3, id, len) ELSE [ok |-> TRUE, h |-> h3])))))

\* Node::update
NodeUpdate(dbg, h, id, len) ==
    Try(USub1(dbg, len, h[id].idx), Bad(h), LAMBDA rl :
        [ok |-> TRUE,
         h |-> [h EXCEPT ![id].info =
                    MakeInfo(InfoOf(h, h[id].left), h[id].val, InfoOf(h, h[id].right))]])

\* setup followed by as_mut on a handle: the flushed, uniquely owned node
SetupMut(dbg, h, id, len) ==
    Then(NodeSetup(dbg, h, id, len), LAMBDA s :
    With(AsMut(s.h, id), LAMBDA m : [ok |-> TRUE, h |-> m.h, id |-> m.id]))

\* ---------------------------------------------------------------- NodeWrapper
\* the loop of NodeWrapper::index, node id being flushed already
RECURSIVE IndexLoop(_, _, _, _, _)
IndexLoop(dbg, h, id, len, index) ==
    IF index = h[id].idx THEN [ok |-> TRUE, h |-> h, v |-> h[id].val]
    ELSE IF ULt(index, h[id].idx) THEN
        IF h[id].left = None THEN Bad(h)
        ELSE Then(NodeSetup(dbg, h, h[id].left, h[id].idx), LAMBDA s :
                 IndexLoop(dbg, s.h, h[id].left, h[id].idx, index))
    ELSE
        Try(USubSucc(dbg, index, h[id].idx), Bad(h), LAMBDA i2 :
        Try(USubSucc(dbg, len, h[id].idx), Bad(h), LAMBDA l2 :
            IF h[id].right = None THEN Bad(h)
            ELSE Then(NodeSetup(dbg, h, h[id].right, l2.v), LAMBDA s :
                     IndexLoop(dbg, s.h, h[id].right, l2.v, i2.v))))

\* NodeWrapper::index
NWIndex(dbg, h, id, len, index) ==
    Then(NodeSetup(dbg, h, id, len), LAMBDA s : IndexLoop(dbg, s.h, id, len, index))

RECURSIVE NWSplit(_, _, _, _, _)
\* split that flushes the node before it looks at the index
NWSplitFlushFirst(dbg, h, this, len, index) ==
    IF this = None THEN [ok |-> TRUE, h |-> h, l |-> None, r |-> None]
    ELSE
      Then(SetupMut(dbg, h, this, len), LAMBDA m :
        IF index = 0 THEN [ok |-> TRUE, h |-> m.h, l |-> None, r |-> m.id]
        ELSE IF index = len THEN [ok |-> TRUE, h |-> m.h, l |-> m.id, r |-> None] ELSE
        IF ULt(m.h[m.id].idx, index) THEN
            With([m.h EXCEPT ![m.id].right = None], LAMBDA h2 :
            Try(USub1(dbg, len, m.h[m.id].idx), Bad(h2), LAMBDA rl :
            Try(USub1(dbg, index, m.h[m.id].idx), Bad(h2), LAMBDA ri :
            Then(NWSplit(dbg, h2, m.h[m.id].right, rl.v, ri.v), LAMBDA rec :
            Then(NodeUpdate(dbg, [rec.h EXCEPT ![m.id].right = rec.l], m.id, index),
                 LAMBDA u : [ok |-> TRUE, h |-> u.h, l |-> m.id, r |-> rec.r])))))
        ELSE
            Then(NWSplit(dbg, [m.h EXCEPT ![m.id].left = None], m.h[m.id].left,
                         m.h[m.id].idx, index), LAMBDA rec :
            With([rec.h EXCEPT ![m.id].left = rec.r], LAMBDA h2 :
            Try(USub(dbg, m.h[m.id].idx, index), Bad(h2), LAMBDA ni :
            With([h2 EXCEPT ![m.id].idx = ni.v], LAMBDA h3 :
            Try(USub(dbg, len, index), Bad(h3), LAMBDA nl :
            Then(NodeUpdate(dbg, h3, m.id, nl.v),
                 LAMBDA u : [ok |-> TRUE, h |-> u.h, l |-> rec.l, r |-> m.id])))))))

\* NodeWrapper::split; l and r are the two returned handles.  The handle is
\* taken by value: a panic drops it
NWSplit(dbg, h, this, len, index) ==
    IF this = None THEN [ok |-> TRUE, h |-> h, l |-> None, r |-> None]
    ELSE IF index = 0 THEN [ok |-> TRUE, h |-> h, l |-> None, r |-> this]
    ELSE IF index = len THEN [ok |-> TRUE, h |-> h, l |-> this, r |-> None]
    ELSE
      Then(SetupMut(dbg, h, this, len), LAMBDA m :
        IF ULt(m.h[m.id].idx, index) THEN
            With([m.h EXCEPT ![m.id].right = None], LAMBDA h2 :
            Try(USub1(dbg, len, m.h[m.id].idx), Bad(h2), LAMBDA rl :
            Try(USub1(dbg, index, m.h[m.id].idx), Bad(h2), LAMBDA ri :
            Then(NWSplit(dbg, h2, m.h[m.id].right, rl.v, ri.v), LAMBDA rec :
            Then(NodeUpdate(dbg, [rec.h EXCEPT ![m.id].right = rec.l], m.id, index),
                 LAMBDA u : [ok |-> TRUE, h |-> u.h, l |-> m.id, r |-> rec.r])))))
        ELSE
            Then(NWSplit(dbg, [m.h EXCEPT ![m.id].left = None], m.h[m.id].left,
                         m.h[m.id].idx, index), LAMBDA rec :
            With([rec.h EXCEPT ![m.id].left = rec.r], LAMBDA h2 :
            Try(USub(dbg, m.h[m.id].idx, index), Bad(h2), LAMBDA ni :
            With([h2 EXCEPT ![m.id].idx = ni.v], LAMBDA h3 :
            Try(USub(dbg, len, index), Bad(h3), LAMBDA nl :
            Then(NodeUpdate(dbg, h3, m.id, nl.v),
                 LAMBDA u : [ok |-> TRUE, h |-> u.h, l |-> rec.l, r |-> m.id])))))))

\* NodeWrapper::merge; k is the number of draws made before the call.  Both
\* handles are taken by value: a panic drops them.  The sum of the lengths is
\* computed before the draw
RECURSIVE NWMerge(_, _, _, _, _, _, _, _)
NWMerge(dbg, h, lhs, llen, rhs, rlen, tape, k) ==
    Try(UAdd(dbg, llen, rlen), Fail(h, None, k), LAMBDA len :
    Try(Choose(dbg, llen, rlen, Coin(tape, k + 1)), Fail(h, None, k + 1), LAMBDA c :
    IF c.v THEN
      Else(SetupMut(dbg, h, lhs, llen), LAMBDA f : Fail(f.h, None, k + 1), LAMBDA m :
        IF m.h[m.id].right = None THEN
            Else(NodeUpdate(dbg, [m.h EXCEPT ![m.id].right = rhs], m.id, len.v),
                 LAMBDA f : Fail(f.h, None, k + 1),
                 LAMBDA u : [ok |-> TRUE, h |-> u.h, id |-> m.id, k |-> k + 1])
        ELSE
            With([m.h EXCEPT ![m.id].right = None], LAMBDA h2 :
            Try(USub1(dbg, llen, m.h[m.id].idx), Fail(h2, None, k + 1), LAMBDA kl :
            Then(NWMerge(dbg, h2, m.h[m.id].right, kl.v, rhs, rlen, tape, k + 1),
                 LAMBDA rec :
            Else(NodeUpdate(dbg, [rec.h EXCEPT ![m.id].right = rec.id], m.id, len.v),
                 LAMBDA f : Fail(f.h, None, rec.k),
                 LAMBDA u : [ok |-> TRUE, h |-> u.h, id |-> m.id, k |-> rec.k])))))
    ELSE
      Else(SetupMut(dbg, h, rhs, rlen), LAMBDA f : Fail(f.h, None, k + 1), LAMBDA m :
      Try(UAdd(dbg, m.h[m.id].idx, llen), Fail(m.h, None, k + 1), LAMBDA nidx :
        IF m.h[m.id].left = None THEN
            Else(NodeUpdate(dbg, [m.h EXCEPT ![m.id].left = lhs, ![m.id].idx = nidx.v],
                            m.id, len.v),
                 LAMBDA f : Fail(f.h, None, k + 1),
                 LAMBDA u : [ok |-> TRUE, h |-> u.h, id |-> m.id, k |-> k + 1])
        ELSE
            Then(NWMerge(dbg, [m.h EXCEPT ![m.id].left = None], lhs, llen,
                         m.h[m.id].left, m.h[m.id].idx, tape, k + 1), LAMBDA rec :
            Else(NodeUpdate(dbg, [rec.h EXCEPT ![m.id].left = rec.id, ![m.id].idx = nidx.v],
                            m.id, len.v),
                 LAMBDA f : Fail(f.h, None, rec.k),
                 LAMBDA u : [ok |-> TRUE, h |-> u.h, id |-> m.id, k |-> rec.k]))))))

RECURSIVE NWInsert(_, _, _, _, _, _, _, _)
\* insert that does not count the element put into the left subtree
NWInsertKeepIdx(dbg, h, this, len, index, item, tape, k) ==
    IF this = None
    THEN With(NewNode(h, item), LAMBDA n : [ok |-> TRUE, h |-> n.h, id |-> n.id, k |-> k])
    ELSE
     Try(Choose(dbg, len, 1, Coin(tape, k + 1)), Fail(h, this, k + 1), LAMBDA c :
      IF c.v THEN
      Else(SetupMut(dbg, h, this, len), LAMBDA f : Fail(f.h, this, k + 1), LAMBDA m :
        IF ULt(m.h[m.id].idx, index) THEN
            Try(USub1(dbg, len, m.h[m.id].idx), Fail(m.h, m.id, k + 1), LAMBDA rl :
            Try(USub1(dbg, index, m.h[m.id].idx), Fail(m.h, m.id, k + 1), LAMBDA ri :
            Else(NWInsert(dbg, m.h, m.h[m.id].right, rl.v, ri.v, item, tape, k + 1),
                 LAMBDA f : Fail([f.h EXCEPT ![m.id].right = f.id], m.id, f.k),
                 LAMBDA rec :
            Try(UAdd(dbg, len, 1), Fail([rec.h EXCEPT ![m.id].right = rec.id], m.id, rec.k),
                LAMBDA l1 :
            Else(NodeUpdate(dbg, [rec.h EXCEPT ![m.id].right = rec.id], m.id, l1.v),
                 LAMBDA f : Fail(f.h, m.id, rec.k),
                 LAMBDA u : [ok |-> TRUE, h |-> u.h, id |-> m.id, k |-> rec.k])))))
        ELSE
            Else(NWInsert(dbg, m.h, m.h[m.id].left, m.h[m.id].idx, index, item, tape, k + 1),
                 LAMBDA f : Fail([f.h EXCEPT ![m.id].left = f.id], m.id, f.k),
                 LAMBDA rec :
            Try(UAdd(dbg, len, 1), Fail([rec.h EXCEPT ![m.id].left = rec.id], m.id, rec.k),
                LAMBDA l1 :
            Else(NodeUpdate(dbg, [rec.h EXCEPT ![m.id].left = rec.id], m.id, l1.v),
                 LAMBDA f : Fail(f.h, m.id, rec.k),
                 LAMBDA u : [ok |-> TRUE, h |-> u.h, id |-> m.id, k |-> rec.k]))))
      ELSE
      Else(NWSplit(dbg, h, this, len, index), LAMBDA f : Fail(f.h, None, k + 1),
           LAMBDA sp :
      Try(USub(dbg, len, index), Fail(sp.h, None, k + 1), LAMBDA rl :
          [ok |-> TRUE,
           h |-> Append(sp.h,
                   [val |-> item,
                    info |-> MakeInfo(InfoOf(sp.h, sp.l), item, InfoOf(sp.h, sp.r)),
                    idx |-> index, rev |-> FALSE, left |-> sp.l, right |-> sp.r, rc |-> 1]),
           id |-> Len(sp.h) + 1, k |-> k + 1])))

\* NodeWrapper::insert; id is the handle left in the slot
NWInsert(dbg, h, this, len, index, item, tape, k) ==
    IF this = None
    THEN With(NewNode(h, item), LAMBDA n : [ok |-> TRUE, h |-> n.h, id |-> n.id, k |-> k])
    ELSE
     Try(Choose(dbg, len, 1, Coin(tape, k + 1)), Fail(h, this, k + 1), LAMBDA c :
      IF c.v THEN
      Else(SetupMut(dbg, h, this, len), LAMBDA f : Fail(f.h, this, k + 1), LAMBDA m :
        IF ULt(m.h[m.id].idx, index) THEN
            Try(USub1(dbg, len, m.h[m.id].idx), Fail(m.h, m.id, k + 1), LAMBDA rl :
            Try(USub1(dbg, index, m.h[m.id].idx), Fail(m.h, m.id, k + 1), LAMBDA ri :
            Else(NWInsert(dbg, m.h, m.h[m.id].right, rl.v, ri.v, item, tape, k + 1),
                 LAMBDA f : Fail([f.h EXCEPT ![m.id].right = f.id], m.id, f.k),
                 LAMBDA rec :
            Try(UAdd(dbg, len, 1), Fail([rec.h EXCEPT ![m.id].right = rec.id], m.id, rec.k),
                LAMBDA l1 :
            Else(NodeUpdate(dbg, [rec.h EXCEPT ![m.id].right = rec.id], m.id, l1.v),
                 LAMBDA f : Fail(f.h, m.id, rec.k),
                 LAMBDA u : [ok |-> TRUE, h |-> u.h, id |-> m.id, k |-> rec.k])))))
        ELSE
            Else(NWInsert(dbg, m.h, m.h[m.id].left, m.h[m.id].idx, index, item, tape, k + 1),
                 LAMBDA f : Fail([f.h EXCEPT ![m.id].left = f.id], m.id, f.k),
                 LAMBDA rec :
            With([rec.h EXCEPT ![m.id].left = rec.id], LAMBDA h2 :
            Try(UAdd(dbg, h2[m.id].idx, 1), Fail(h2, m.id, rec.k), LAMBDA i1 :
            With([h2 EXCEPT ![m.id].idx = i1.v], LAMBDA h3 :
            Try(UAdd(dbg, len, 1), Fail(h3, m.id, rec.k), LAMBDA l1 :
            Else(NodeUpdate(dbg, h3, m.id, l1.v),
                 LAMBDA f : Fail(f.h, m.id, rec.k),
                 LAMBDA u : [ok |-> TRUE, h |-> u.h, id |-> m.id, k |-> rec.k])))))))
      ELSE
      Else(NWSplit(dbg, h, this, len, index), LAMBDA f : Fail(f.h, None, k + 1),
           LAMBDA sp :
      Try(USub(dbg, len, index), Fail(sp.h, None, k + 1), LAMBDA rl :
          [ok |-> TRUE,
           h |-> Append(sp.h,
                   [val |-> item,
                    info |-> MakeInfo(InfoOf(sp.h, sp.l), item, InfoOf(sp.h, sp.r)),
                    idx |-> index, rev |-> FALSE, left |-> sp.l, right |-> sp.r, rc |-> 1]),
           id |-> Len(sp.h) + 1, k |-> k + 1])))

\* Rc::try_unwrap on the uniquely owned node id whose children were taken
Unwrap(h, id) == [h EXCEPT ![id].rc = 0, ![id].left = None, ![id].right = None]

\* NodeWrapper::remove; v is the removed value, o the handle that remains.  The
\* handle is taken by value: a panic drops it
RECURSIVE NWRemove(_, _, _, _, _, _, _)
NWRemove(dbg, h, self, len, index, tape, k) ==
    Else(SetupMut(dbg, h, self, len), LAMBDA f : Fail(f.h, None, k), LAMBDA m :
      IF index = m.h[m.id].idx THEN
          IF m.h[m.id].left = None \/ m.h[m.id].right = None THEN
              [ok |-> TRUE, h |-> Unwrap(m.h, m.id), v |-> m.h[m.id].val,
               o |-> IF m.h[m.id].left = None THEN m.h[m.id].right ELSE m.h[m.id].left,
               k |-> k]
          ELSE
              Try(USub1(dbg, len, m.h[m.id].idx), Fail(Unwrap(m.h, m.id), None, k),
                  LAMBDA rl :
              Then(NWMerge(dbg, Unwrap(m.h, m.id), m.h[m.id].left, m.h[m.id].idx,
                           m.h[m.id].right, rl.v, tape, k), LAMBDA mg :
                  [ok |-> TRUE, h |-> mg.h, v |-> m.h[m.id].val, o |-> mg.id, k |-> mg.k]))
      ELSE IF ULt(index, m.h[m.id].idx) THEN
          IF m.h[m.id].left = None THEN Fail(m.h, None, k)
          ELSE Then(NWRemove(dbg, [m.h EXCEPT ![m.id].left = None], m.h[m.id].left,
                             m.h[m.id].idx, index, tape, k), LAMBDA rec :
               With([rec.h EXCEPT ![m.id].left = rec.o], LAMBDA h2 :
               Try(USub(dbg, len, 1), Fail(h2, None, rec.k), LAMBDA l1 :
               Else(NodeUpdate(dbg, h2, m.id, l1.v), LAMBDA f : Fail(f.h, None, rec.k),
                    LAMBDA u : [ok |-> TRUE, h |-> u.h, v |-> rec.v, o |-> m.id,
                                k |-> rec.k]))))
      ELSE
          IF m.h[m.id].right = None THEN Fail(m.h, None, k)
          ELSE With([m.h EXCEPT ![m.id].right = None], LAMBDA h1 :
               Try(USub1(dbg, len, m.h[m.id].idx), Fail(h1, None, k), LAMBDA rl :
               Try(USub1(dbg, index, m.h[m.id].idx), Fail(h1, None, k), LAMBDA ri :
               Then(NWRemove(dbg, h1, m.h[m.id].right, rl.v, ri.v, tape, k), LAMBDA rec :
               With([DropRc(rec.h, rec.h[m.id].left) EXCEPT ![m.id].left = rec.o],
                    LAMBDA h2 :
               Try(USub(dbg, len, 1), Fail(h2, None, rec.k), LAMBDA l1 :
               Else(NodeUpdate(dbg, h2, m.id, l1.v), LAMBDA f : Fail(f.h, None, rec.k),
                    LAMBDA u : [ok |-> TRUE, h |-> u.h, v |-> rec.v, o |-> m.id,
                                k |-> rec.k]))))))))

\* the loop of NodeWrapper::prod_left, node id being flushed already
RECURSIVE ProdLeftLoop(_, _, _, _, _, _)
ProdLeftLoop(dbg, h, id, len, index, ret) ==
    IF ULt(index, h[id].idx) THEN
        IF h[id].left = None THEN Bad(h)
        ELSE Then(NodeSetup(dbg, h, h[id].left, h[id].idx), LAMBDA s :
                 ProdLeftLoop(dbg, s.h, h[id].left, h[id].idx, index, ret))
    ELSE IF index = h[id].idx THEN
        IF h[id].left = None THEN Bad(h)
        ELSE Then(NodeSetup(dbg, h, h[id].left, h[id].idx), LAMBDA s :
                 [ok |-> TRUE, h |-> s.h, v |-> Op(ret, s.h[h[id].left].info.sum)])
    ELSE
        Then(IF h[id].left = None THEN [ok |-> TRUE, h |-> h]
             ELSE NodeSetup(dbg, h, h[id].left, h[id].idx), LAMBDA s :
        With(Op(IF h[id].left = None THEN ret ELSE Op(ret, s.h[h[id].left].info.sum),
                h[id].val), LAMBDA r2 :
          Try(UAdd(dbg, h[id].idx, 1), Bad(s.h), LAMBDA i1 :
            IF index = i1.v THEN [ok |-> TRUE, h |-> s.h, v |-> r2]
            ELSE Try(USubSucc(dbg, index, h[id].idx), Bad(s.h), LAMBDA i2 :
                 Try(USubSucc(dbg, len, h[id].idx), Bad(s.h), LAMBDA l2 :
                     IF h[id].right = None THEN Bad(s.h)
                     ELSE Then(NodeSetup(dbg, s.h, h[id].right, l2.v), LAMBDA t :
                              ProdLeftLoop(dbg, t.h, h[id].right, l2.v, i2.v, r2)))))))

\* NodeWrapper::prod_left
NWProdLeft(dbg, h, id, len, index) ==
    IF index = 0 THEN [ok |-> TRUE, h |-> h, v |-> E]
    ELSE Then(NodeSetup(dbg, h, id, len), LAMBDA s :
             IF index = len THEN [ok |-> TRUE, h |-> s.h, v |-> s.h[id].info.sum]
             ELSE ProdLeftLoop(dbg, s.h, id, len, index, E))

\* the loop of NodeWrapper::prod_right, node id being flushed already
RECURSIVE ProdRightLoop(_, _, _, _, _, _)
ProdRightLoop(dbg, h, id, len, index, ret) ==
    IF ULe(index, h[id].idx) THEN
        Then(IF h[id].right = None THEN [ok |-> TRUE, h |-> h]
             ELSE Try(USub1(dbg, len, h[id].idx), Bad(h), LAMBDA rl :
                      NodeSetup(dbg, h, h[id].right, rl.v)), LAMBDA s :
        With(Op(h[id].val,
                IF h[id].right = None THEN ret ELSE Op(s.h[h[id].right].info.sum, ret)),
             LAMBDA r2 :
            IF index = h[id].idx THEN [ok |-> TRUE, h |-> s.h, v |-> r2]
            ELSE IF h[id].left = None THEN Bad(s.h)
            ELSE Then(NodeSetup(dbg, s.h, h[id].left, h[id].idx), LAMBDA t :
                     ProdRightLoop(dbg, t.h, h[id].left, h[id].idx, index, r2))))
    ELSE Try(UAdd(dbg, h[id].idx, 1), Bad(h), LAMBDA i1 :
      IF index = i1.v THEN
        IF h[id].right = None THEN Bad(h)
        ELSE Try(USub1(dbg, len, h[id].idx), Bad(h), LAMBDA rl :
             Then(NodeSetup(dbg, h, h[id].right, rl.v), LAMBDA s :
                 [ok |-> TRUE, h |-> s.h, v |-> Op(s.h[h[id].right].info.sum, ret)]))
      ELSE
        Try(USubSucc(dbg, index, h[id].idx), Bad(h), LAMBDA i2 :
        Try(USubSucc(dbg, len, h[id].idx), Bad(h), LAMBDA l2 :
            IF h[id].right = None THEN Bad(h)
            ELSE Then(NodeSetup(dbg, h, h[id].right, l2.v), LAMBDA s :
                     ProdRightLoop(dbg, s.h, h[id].right, l2.v, i2.v, ret)))))

\* NodeWrapper::prod_right
NWProdRight(dbg, h, id, len, index) ==
    IF index = len THEN [ok |-> TRUE, h |-> h, v |-> E]
    ELSE Then(NodeSetup(dbg, h, id, len), LAMBDA s :
             IF index = 0 THEN [ok |-> TRUE, h |-> s.h, v |-> s.h[id].info.sum]
             ELSE ProdRightLoop(dbg, s.h, id, len, index, E))

\* M::apply_info on the Info of handle id, through as_mut
ApplyInfoMut(h, id, len, lazy) ==
    With(AsMut(h, id), LAMBDA m :
        [ok |-> TRUE, h |-> [m.h EXCEPT ![m.id].info = ApplyInfo(@, len, lazy)], id |-> m.id])

\* M::apply_info on a child that may be None
ApplyInfoOpt(h, id, len, lazy) ==
    IF id = None THEN [ok |-> TRUE, h |-> h, id |-> None] ELSE ApplyInfoMut(h, id, len, lazy)

\* node.update(len) at the end of apply_left, apply_right and apply, on what the
\* branch taken made of node id
ApplyDone(dbg, body, id, len) ==
    Then(body, LAMBDA b :
    Else(NodeUpdate(dbg, b.h, id, len), LAMBDA f : Fail(f.h, id, 0),
         LAMBDA u : [ok |-> TRUE, h |-> u.h, id |-> id]))

\* NodeWrapper::apply_left; id is the handle left in the slot
RECURSIVE NWApplyLeft(_, _, _, _, _, _)
NWApplyLeft(dbg, h, self, len, index, lazy) ==
    IF index = 0 THEN [ok |-> TRUE, h |-> h, id |-> self]
    ELSE IF index = len THEN ApplyInfoMut(h, self, len, lazy)
    ELSE
      Else(SetupMut(dbg, h, self, len), LAMBDA f : Fail(f.h, self, 0), LAMBDA m :
        ApplyDone(dbg,
          IF ULe(index, m.h[m.id].idx) THEN
              IF m.h[m.id].left = None THEN Fail(m.h, m.id, 0)
              ELSE Else(NWApplyLeft(dbg, m.h, m.h[m.id].left, m.h[m.id].idx, index, lazy),
                        LAMBDA f : Fail([f.h EXCEPT ![m.id].left = f.id], m.id, 0),
                        LAMBDA rec : [ok |-> TRUE, h |-> [rec.h EXCEPT ![m.id].left = rec.id]])
          ELSE
              With(ApplyInfoOpt(m.h, m.h[m.id].left, m.h[m.id].idx, lazy), LAMBDA a :
              With([a.h EXCEPT ![m.id].left = a.id], LAMBDA h2 :
                IF ~ULt(m.h[m.id].idx, index) THEN [ok |-> TRUE, h |-> h2]
                ELSE
                  With([h2 EXCEPT ![m.id].val = ApplyVal(@, lazy)], LAMBDA h3 :
                    Try(UAdd(dbg, index, 1), Fail(h3, m.id, 0), LAMBDA i1 :
                    IF ~ULt(m.h[m.id].idx, i1.v) THEN [ok |-> TRUE, h |-> h3]
                    ELSE IF m.h[m.id].right = None THEN Fail(h3, m.id, 0)
                    ELSE Try(USub1(dbg, len, m.h[m.id].idx), Fail(h3, m.id, 0), LAMBDA rl :
                         Try(USub1(dbg, index, m.h[m.id].idx), Fail(h3, m.id, 0), LAMBDA ri :
                         Else(NWApplyLeft(dbg, h3, m.h[m.id].right, rl.v, ri.v, lazy),
                              LAMBDA f : Fail([f.h EXCEPT ![m.id].right = f.id], m.id, 0),
                              LAMBDA rec : [ok |-> TRUE,
                                            h |-> [rec.h EXCEPT ![m.id].right = rec.id]]))))))),
          m.id, len))

\* NodeWrapper::apply_right; id is the handle left in the slot
RECURSIVE NWApplyRight(_, _, _, _, _, _)
NWApplyRight(dbg, h, self, len, index, lazy) ==
    IF index = 0 THEN ApplyInfoMut(h, self, len, lazy)
    ELSE IF index = len THEN [ok |-> TRUE, h |-> h, id |-> self]
    ELSE
      Else(SetupMut(dbg, h, self, len), LAMBDA f : Fail(f.h, self, 0), LAMBDA m :
        ApplyDone(dbg,
          Try(UAdd(dbg, m.h[m.id].idx, 1), Fail(m.h, m.id, 0), LAMBDA i1 :
          IF ULt(i1.v, index) THEN
              IF m.h[m.id].right = None THEN Fail(m.h, m.id, 0)
              ELSE Try(USub1(dbg, len, m.h[m.id].idx), Fail(m.h, m.id, 0), LAMBDA rl :
                   Try(USub1(dbg, index, m.h[m.id].idx), Fail(m.h, m.id, 0), LAMBDA ri :
                   Else(NWApplyRight(dbg, m.h, m.h[m.id].right, rl.v, ri.v, lazy),
                        LAMBDA f : Fail([f.h EXCEPT ![m.id].right = f.id], m.id, 0),
                        LAMBDA rec : [ok |-> TRUE,
                                      h |-> [rec.h EXCEPT ![m.id].right = rec.id]])))
          ELSE
              Then(IF m.h[m.id].right = None THEN [ok |-> TRUE, h |-> m.h]
                   ELSE With(AsMut(m.h, m.h[m.id].right), LAMBDA c :
                        With([c.h EXCEPT ![m.id].right = c.id], LAMBDA h1 :
                        Try(USub1(dbg, len, m.h[m.id].idx), Fail(h1, m.id, 0), LAMBDA rl :
                            [ok |-> TRUE,
                             h |-> [h1 EXCEPT ![c.id].info = ApplyInfo(@, rl.v, lazy)]]))),
                   LAMBDA a :
                IF ~ULe(index, m.h[m.id].idx) THEN [ok |-> TRUE, h |-> a.h]
                ELSE
                  With([a.h EXCEPT ![m.id].val = ApplyVal(@, lazy)], LAMBDA h3 :
                    IF ~ULt(index, m.h[m.id].idx) THEN [ok |-> TRUE, h |-> h3]
                    ELSE IF m.h[m.id].left = None THEN Fail(h3, m.id, 0)
                    ELSE Else(NWApplyRight(dbg, h3, m.h[m.id].left, m.h[m.id].idx, index,
                                           lazy),
                              LAMBDA f : Fail([f.h EXCEPT ![m.id].left = f.id], m.id, 0),
                              LAMBDA rec : [ok |-> TRUE,
                                            h |-> [rec.h EXCEPT ![m.id].left = rec.id]])))),
          m.id, len))

\* NodeWrapper::apply; id is the handle left in the slot
RECURSIVE NWApply(_, _, _, _, _, _, _)
NWApply(dbg, h, self, len, left, right, lazy) ==
    IF left = 0 THEN NWApplyLeft(dbg, h, self, len, right, lazy)
    ELSE IF right = len THEN NWApplyRight(dbg, h, self, len, left, lazy)
    ELSE
      Else(SetupMut(dbg, h, self, len), LAMBDA f : Fail(f.h, self, 0), LAMBDA m :
        ApplyDone(dbg,
          IF ULe(left, m.h[m.id].idx) /\ ULe(right, m.h[m.id].idx) THEN
              IF m.h[m.id].left = None THEN Fail(m.h, m.id, 0)
              ELSE Else(NWApply(dbg, m.h, m.h[m.id].left, m.h[m.id].idx, left, right, lazy),
                        LAMBDA f : Fail([f.h EXCEPT ![m.id].left = f.id], m.id, 0),
                        LAMBDA rec : [ok |-> TRUE, h |-> [rec.h EXCEPT ![m.id].left = rec.id]])
          ELSE IF ULt(m.h[m.id].idx, left) /\ ULt(m.h[m.id].idx, right) THEN
              IF m.h[m.id].right = None THEN Fail(m.h, m.id, 0)
              ELSE Try(USub1(dbg, len, m.h[m.id].idx), Fail(m.h, m.id, 0), LAMBDA rl :
                   Try(USub1(dbg, left, m.h[m.id].idx), Fail(m.h, m.id, 0), LAMBDA a :
                   Try(USub1(dbg, right, m.h[m.id].idx), Fail(m.h, m.id, 0), LAMBDA b :
                   Else(NWApply(dbg, m.h, m.h[m.id].right, rl.v, a.v, b.v, lazy),
                        LAMBDA f : Fail([f.h EXCEPT ![m.id].right = f.id], m.id, 0),
                        LAMBDA rec : [ok |-> TRUE,
                                      h |-> [rec.h EXCEPT ![m.id].right = rec.id]]))))
          ELSE
              Then(IF m.h[m.id].left = None THEN [ok |-> TRUE, h |-> m.h]
                   ELSE Else(NWApplyRight(dbg, m.h, m.h[m.id].left, m.h[m.id].idx, left,
                                          lazy),
                             LAMBDA f : Fail([f.h EXCEPT ![m.id].left = f.id], m.id, 0),
                             LAMBDA rec : [ok |-> TRUE,
                                           h |-> [rec.h EXCEPT ![m.id].left = rec.id]]),
                   LAMBDA x :
              Then(IF m.h[m.id].right = None THEN x
                   ELSE Try(USub1(dbg, len, m.h[m.id].idx), Fail(x.h, m.id, 0), LAMBDA rl :
                        Try(USub1(dbg, right, m.h[m.id].idx), Fail(x.h, m.id, 0), LAMBDA b :
                        Else(NWApplyLeft(dbg, x.h, m.h[m.id].right, rl.v, b.v, lazy),
                             LAMBDA f : Fail([f.h EXCEPT ![m.id].right = f.id], m.id, 0),
                             LAMBDA rec : [ok |-> TRUE,
                                           h |-> [rec.h EXCEPT ![m.id].right = rec.id]]))),
                   LAMBDA y : [ok |-> TRUE,
                               h |-> [y.h EXCEPT ![m.id].val = ApplyVal(@, lazy)]])),
          m.id, len))

\* ---------------------------------------------------------------- MasterTree
\* a MasterTree is [root, len, rng]

\* MasterTree::new
TNew == [root |-> None, len |-> 0, rng |-> Seed]

\* a tree whose generator is in any state
AnyTree == [TNew EXCEPT !.rng = AnyRng]

\* a slot that holds no tree: its length is one no call computes
Absent == [root |-> None, len |-> -100, rng |-> AnyRng]

\* a panic in a call on a tree: t is what the call leaves of the tree (Absent
\* when the call took it by value), k the number of draws made
Wreck(h, t, k) == [ok |-> FALSE, h |-> h, t |-> t, k |-> k]

\* MasterTree::insert
TInsert(dbg, h, t, index, item, tape) ==
    IF dbg /\ ~ULe(index, t.len) THEN Wreck(h, t, 0)
    ELSE Try(CheckedAdd(t.len, 1), Wreck(h, t, 0), LAMBDA n :
         Else(NWInsert(dbg, h, t.root, t.len, index, item, tape, 0),
              LAMBDA f : Wreck(f.h, [t EXCEPT !.root = f.id, !.rng = After(@, tape, f.k)],
                               f.k),
              LAMBDA r : [ok |-> TRUE, h |-> r.h,
                          t |-> [root |-> r.id, len |-> n.v,
                                 rng |-> After(t.rng, tape, r.k)]]))

\* MasterTree::remove: the root is taken out of the tree before
\* NodeWrapper::remove is called, and put back when the length is updated
TRemove(dbg, h, t, index, tape) ==
    IF (dbg /\ ~ULt(index, t.len)) \/ t.root = None THEN Wreck(h, t, 0)
    ELSE Else(NWRemove(dbg, h, t.root, t.len, index, tape, 0),
              LAMBDA f : Wreck(f.h, [t EXCEPT !.root = None, !.rng = After(@, tape, f.k)],
                               f.k),
              LAMBDA r :
         Try(USub(dbg, t.len, 1),
             Wreck(r.h, [t EXCEPT !.root = None, !.rng = After(@, tape, r.k)], r.k),
             LAMBDA l1 :
             [ok |-> TRUE, h |-> r.h, v |-> r.v,
              t |-> [root |-> r.o, len |-> l1.v, rng |-> After(t.rng, tape, r.k)]]))

\* a reverse that leaves the flag of the root as it is
TReverseKeepFlag(h, t) == [ok |-> TRUE, h |-> h, t |-> t]

\* MasterTree::reverse
TReverse(h, t) ==
    IF t.root = None THEN [ok |-> TRUE, h |-> h, t |-> t]
    ELSE With(AsMut(h, t.root), LAMBDA m :
             [ok |-> TRUE, h |-> [m.h EXCEPT ![m.id].rev = ~@],
              t |-> [t EXCEPT !.root = m.id]])

\* MasterTree::split: the tree is taken by value, so that a panic drops it; the
\* left part keeps the generator, the right part gets the one made from it
TSplit(dbg, h, t, index) ==
    IF dbg /\ ~ULe(index, t.len) THEN Wreck(h, Absent, 0)
    ELSE Else(NWSplit(dbg, h, t.root, t.len, index), LAMBDA f : Wreck(f.h, Absent, 0),
              LAMBDA r :
         Try(USub(dbg, t.len, index), Wreck(r.h, Absent, 0), LAMBDA rl :
             [ok |-> TRUE, h |-> r.h,
              l |-> [root |-> r.l, len |-> index, rng |-> t.rng],
              r |-> [root |-> r.r, len |-> rl.v, rng |-> Make(t.rng)]]))

\* MasterTree::merge: both trees are taken by value, so that a panic drops
\* them; the result has the generator of the left one
TMerge(dbg, h, a, b, tape) ==
    Try(CheckedAdd(a.len, b.len), Wreck(h, Absent, 0), LAMBDA n :
        IF a.root = None
        THEN [ok |-> TRUE, h |-> h, t |-> [root |-> b.root, len |-> n.v, rng |-> a.rng]]
        ELSE IF b.root = None
        THEN [ok |-> TRUE, h |-> h, t |-> [root |-> a.root, len |-> n.v, rng |-> a.rng]]
        ELSE Else(NWMerge(dbg, h, a.root, a.len, b.root, b.len, tape, 0),
                  LAMBDA f : Wreck(f.h, Absent, f.k),
                  LAMBDA r : [ok |-> TRUE, h |-> r.h,
                              t |-> [root |-> r.id, len |-> n.v,
                                     rng |-> After(a.rng, tape, r.k)]]))

\* the bound checks of MasterTree::prod and MasterTree::apply on left..right
RangeAsserts(dbg, t, left, right) ==
    dbg => (ULe(left, t.len) /\ ULe(right, t.len) /\ ULe(left, right))

\* the loop of MasterTree::prod
RECURSIVE TProdLoop(_, _, _, _, _, _)
TProdLoop(dbg, h, id, len, left, right) ==
    IF left = 0 /\ right = len THEN
        Then(NodeSetup(dbg, h, id, len), LAMBDA s :
            [ok |-> TRUE, h |-> s.h, v |-> s.h[id].info.sum])
    ELSE IF left = 0 THEN NWProdLeft(dbg, h, id, len, right)
    ELSE IF right = len THEN NWProdRight(dbg, h, id, len, left)
    ELSE
      Then(NodeSetup(dbg, h, id, len), LAMBDA s :
        IF ULe(left, s.h[id].idx) /\ ULe(right, s.h[id].idx) THEN
            IF s.h[id].left = None THEN Bad(s.h)
            ELSE TProdLoop(dbg, s.h, s.h[id].left, s.h[id].idx, left, right)
        ELSE IF ULt(s.h[id].idx, left) /\ ULt(s.h[id].idx, right) THEN
            IF s.h[id].right = None THEN Bad(s.h)
            ELSE Try(USubSucc(dbg, left, s.h[id].idx), Bad(s.h), LAMBDA a :
                 Try(USubSucc(dbg, right, s.h[id].idx), Bad(s.h), LAMBDA b :
                 Try(USubSucc(dbg, len, s.h[id].idx), Bad(s.h), LAMBDA l2 :
                     TProdLoop(dbg, s.h, s.h[id].right, l2.v, a.v, b.v))))
        ELSE
            IF s.h[id].left = None THEN Bad(s.h)
            ELSE Then(NWProdRight(dbg, s.h, s.h[id].left, s.h[id].idx, left), LAMBDA x :
                 IF x.h[id].right = None THEN Bad(x.h)
                 ELSE Try(USub1(dbg, len, s.h[id].idx), Bad(x.h), LAMBDA rl :
                      Try(USub1(dbg, right, s.h[id].idx), Bad(x.h), LAMBDA rr :
                      Then(NWProdLeft(dbg, x.h, x.h[id].right, rl.v, rr.v), LAMBDA y :
                          [ok |-> TRUE, h |-> y.h,
                           v |-> Op(Op(x.v, s.h[id].val), y.v)])))))

\* MasterTree::prod on the range left..right
TProd(dbg, h, t, left, right) ==
    IF ~RangeAsserts(dbg, t, left, right) THEN Bad(h)
    ELSE IF left = right THEN [ok |-> TRUE, h |-> h, v |-> E]
    ELSE IF t.root = None THEN Bad(h)
    ELSE TProdLoop(dbg, h, t.root, t.len, left, right)

\* MasterTree::apply on the range left..right
TApply(dbg, h, t, left, right, lazy) ==
    IF ~RangeAsserts(dbg, t, left, right) THEN Wreck(h, t, 0)
    ELSE IF left = right THEN [ok |-> TRUE, h |-> h, t |-> t]
    ELSE IF t.root = None THEN Wreck(h, t, 0)
    ELSE Else(NWApply(dbg, h, t.root, t.len, left, right, lazy),
              LAMBDA f : Wreck(f.h, [t EXCEPT !.root = f.id], 0),
              LAMBDA r : [ok |-> TRUE, h |-> r.h, t |-> [t EXCEPT !.root = r.id]])

\* Index::index
TIndex(dbg, h, t, index) ==
    IF (dbg /\ ~ULt(index, t.len)) \/ t.root = None THEN Bad(h)
    ELSE NWIndex(dbg, h, t.root, t.len, index)

\* Clone::clone
TClone(h, t) == [ok |-> TRUE, h |-> IncRc(h, t.root), t |-> t]

\* internal of Debug::fmt: the entries of the list it prints, every node on the
\* way flushed in place
RECURSIVE FmtInternal(_, _, _, _, _)
FmtInternal(dbg, h, v, len, list) ==
    IF v = None THEN [ok |-> TRUE, h |-> h, list |-> list]
    ELSE Then(NodeSetup(dbg, h, v, len), LAMBDA s :
         Then(FmtInternal(dbg, s.h, s.h[v].left, s.h[v].idx, Append(list, "(")), LAMBDA a :
         Try(USub1(dbg, len, a.h[v].idx), Bad(a.h), LAMBDA rl :
         Then(FmtInternal(dbg, a.h, a.h[v].right, rl.v, Append(a.list, a.h[v].val)),
              LAMBDA b : [ok |-> TRUE, h |-> b.h, list |-> Append(b.list, ")")]))))

\* Debug::fmt
TFmt(dbg, h, t) == FmtInternal(dbg, h, t.root, t.len, <<>>)

\* the descent shared by MasterTree::iter and Iter::next: flush the nodes of
\* the left spine below id with the length n, pushing each with its own length
RECURSIVE IterDescend(_, _, _, _, _, _)
IterDescend(dbg, h, id, len, n, stack) ==
    IF id = None THEN [ok |-> TRUE, h |-> h, stack |-> stack]
    ELSE Else(NodeSetup(dbg, h, id, n),
              LAMBDA f : [ok |-> FALSE, h |-> f.h, stack |-> stack],
              LAMBDA s : IterDescend(dbg, s.h, s.h[id].left, s.h[id].idx, n,
                                     Append(stack, <<id, len>>)))

\* MasterTree::iter
TIter(dbg, h, t) == IterDescend(dbg, h, t.root, t.len, t.len, <<>>)

\* Iter::next on a stack that is not empty; v is the item.  The entry is popped
\* before its node is read.  The item is a reference to the val at the popped
\* address, read when the descent is over: it is the val of the node popped
\* (pick = 0) or, the popped node being freed, of the pick-th node that the
\* descent allocates, when that node is put at its address
IterNext(dbg, h, stack, n, pick) ==
    With(stack[Len(stack)], LAMBDA top :
    With(SubSeq(stack, 1, Len(stack) - 1), LAMBDA rest :
    Try(USubSucc(dbg, top[2], h[top[1]].idx), [ok |-> FALSE, h |-> h, stack |-> rest],
        LAMBDA l2 :
    Then(IterDescend(dbg, h, h[top[1]].right, l2.v, n, rest),
         LAMBDA d : [ok |-> TRUE, h |-> d.h, stack |-> d.stack,
                     v |-> d.h[IF pick = 0 THEN top[1] ELSE Len(h) + pick].val]))))

\* the number of nodes that the descent of Iter::next allocates
Allocs(h, stack, n) == Len(IterNext(FALSE, h, stack, n, 0).h) - Len(h)

\* ---------------------------------------------------------------- plain lists
\* the first n elements of s, all of s when it is shorter
Prefix(s, n) == SubSeq(s, 1, IF n < Len(s) THEN n ELSE Len(s))

InsertAt(s, i, v) == Prefix(s, i) \o <<v>> \o SubSeq(s, i + 1, Len(s))

RemoveAt(s, i) == Prefix(s, i) \o SubSeq(s, i + 2, Len(s))

Reversed(s) == [j \in 1..Len(s) |-> s[Len(s) + 1 - j]]

AddRange(s, l, r, c) == [j \in 1..Len(s) |-> IF l < j /\ j <= r THEN s[j] + c ELSE s[j]]

RECURSIVE SumSeq(_)
SumSeq(s) == IF s = <<>> THEN 0 ELSE Head(s) + SumSeq(Tail(s))

\* ---------------------------------------------------------------- observations
\* a returned value <<v>>, or <<>> for a panic
Shown(r) == IF r.ok THEN <<r.v>> ELSE <<>>

\* the number of indices a tree of length len is observed at: all of them, and
\* of a wrapped length 2^64 - k, which no check can go through, the first k
Span(len) == IF len < 0 THEN -len ELSE len

\* what tree[i] returns for each i < len
ObsSeq(dbg, h, t) ==
    [j \in 1..Span(t.len) |-> Shown(TIndex(dbg, h, t, j - 1))]

\* what prod(l..r) returns for each 0 <= l <= r <= len
ObsProd(dbg, h, t) ==
    [rg \in {x \in (0..Span(t.len)) \X (0..Span(t.len)) : x[1] <= x[2]} |->
        Shown(TProd(dbg, h, t, rg[1], rg[2]))]

\* what draining iter() yields (<<>> for a panic)
RECURSIVE Drain(_, _, _, _, _)
Drain(dbg, h, stack, n, out) ==
    IF stack = <<>> THEN <<out>>
    ELSE With(IterNext(dbg, h, stack, n, 0), LAMBDA r :
             IF ~r.ok THEN <<>> ELSE Drain(dbg, r.h, r.stack, n, Append(out, r.v)))

ObsIter(dbg, h, t) ==
    With(TIter(dbg, h, t), LAMBDA r :
        IF ~r.ok THEN <<>> ELSE Drain(dbg, r.h, r.stack, t.len, <<>>))

\* what len(), the index operator and prod show
ObsQuery(dbg, h, t) ==
    [len |-> t.len, seq |-> ObsSeq(dbg, h, t), prod |-> ObsProd(dbg, h, t)]

\* every read: len(), the index operator, prod and iter
Obs(dbg, h, t) ==
    [len |-> t.len, seq |-> ObsSeq(dbg, h, t), prod |-> ObsProd(dbg, h, t),
     iter |-> ObsIter(dbg, h, t)]

\* the observations a plain list s gives
Boxed(s) == [j \in 1..Len(s) |-> <<s[j]>>]

ListProd(s) ==
    [rg \in {x \in (0..Len(s)) \X (0..Len(s)) : x[1] <= x[2]} |->
        <<SumSeq(SubSeq(s, rg[1] + 1, rg[2]))>>]

\* ---------------------------------------------------------------- heap reachability
RECURSIVE Visit(_, _, _)
Visit(h, id, order) ==
    IF id = None \/ (\E j \in 1..Len(order) : order[j] = id) THEN order
    ELSE Visit(h, h[id].right, Visit(h, h[id].left, Append(order, id)))

RECURSIVE VisitRoots(_, _, _, _)
VisitRoots(h, ts, k, order) ==
    IF k > NumSlots THEN order ELSE VisitRoots(h, ts, k + 1, Visit(h, ts[k].root, order))

\* the nodes reached from the nodes ids, after those of order
RECURSIVE VisitAll(_, _, _)
VisitAll(h, ids, order) ==
    IF ids = <<>> THEN order ELSE VisitAll(h, Tail(ids), Visit(h, Head(ids), order))

\* the iterator i holds the address of a freed node
Dangling(h, i) == \E j \in 1..Len(i.stack) : h[i.stack[j][1]].rc = 0

\* the nodes the program can reach, in a fixed order: those of the trees first,
\* the nodes that the iterator i points at after them.  While the iterator
\* holds the address of a freed node every freed node is kept: any of them may
\* have been allocated at that address since, and left its fields there
LiveOrder(h, ts, i) ==
    VisitAll(h, SelectSeq([k \in 1..Len(h) |-> k],
                          LAMBDA k : h[k].rc > 0 \/ Dangling(h, i)),
             VisitAll(h, [j \in 1..Len(i.stack) |-> i.stack[j][1]],
                      VisitRoots(h, ts, 1, <<>>)))

Pos(order, id) == IF id = None THEN None ELSE CHOOSE j \in 1..Len(order) : order[j] = id

\* the heap with the nodes out of reach removed and the others renumbered in
\* LiveOrder: node addresses carry no meaning
Compact(h, ts, i) ==
    With(LiveOrder(h, ts, i), LAMBDA o :
        [h |-> [j \in 1..Len(o) |->
                  [h[o[j]] EXCEPT !.left = Pos(o, @), !.right = Pos(o, @)]],
         ts |-> [t \in DOMAIN ts |-> [ts[t] EXCEPT !.root = Pos(o, @)]],
         it |-> [i EXCEPT !.stack = [j \in 1..Len(i.stack) |->
                                       <<Pos(o, i.stack[j][1]), i.stack[j][2]>>]]])

\* the number of handles on node id that the trees ts and the nodes of the set
\* live hold
Handles(h, ts, live, id) ==
    Cardinality({t \in DOMAIN ts : ts[t].root = id})
    + Cardinality({j \in live : h[j].left = id})
    + Cardinality({j \in live : h[j].right = id})

\* the number of handles that point at node id
InDegree(h, ts, id) == Handles(h, ts, {j \in 1..Len(h) : h[j].rc > 0}, id)

\* the heap once a panic has unwound out of the call: the handles that the call
\* held are dropped, and the nodes that only they held are freed
Unwind(h, ts) ==
    With(VisitRoots(h, ts, 1, <<>>), LAMBDA o :
    With({o[j] : j \in 1..Len(o)}, LAMBDA live :
        [j \in 1..Len(h) |->
            [h[j] EXCEPT !.rc = IF j \in live THEN Handles(h, ts, live, j) ELSE 0]]))

\* the number of elements reachable from handle id
RECURSIVE Size(_, _)
Size(h, id) == IF id = None THEN 0 ELSE 1 + Size(h, h[id].left) + Size(h, h[id].right)

\* the words one call may draw from the generator x, in the order of the
\* draws: a call on the handles a and b draws at most once for each node under
\* them.  Of a generator in any state each draw is the least or the greatest
\* word, which between them give Rng::choose each of its outcomes
Tapes(x, h, a, b) ==
    IF x = AnyRng THEN [1..(Size(h, a) + Size(h, b)) -> {Lo, Hi}]
    ELSE {Words(x, Size(h, a) + Size(h, b))}

\* some node under handle id has a lazy amount not yet pushed down
PendingLazy(h, id) ==
    With(Visit(h, id, <<>>), LAMBDA o : \E j \in 1..Len(o) : h[o[j]].info.lz # 0)

\* some node under handle id has its reversal flag set
PendingRev(h, id) ==
    With(Visit(h, id, <<>>), LAMBDA o : \E j \in 1..Len(o) : h[o[j]].rev)

\* ---------------------------------------------------------------- state machine
\* build: "any" while the run is the same in a debug and in a release build;
\* "release" once an overflow has wrapped, which only a release build does;
\* "debug" when the program has stopped on a panic only a debug build raises.
\* last: the latest call (op on tree t, a its index argument if it mutates
\* the tree; ok unless it panicked; ret what remove returned, iter yielded or
\* fmt printed, for apply the end of the range, the amount and whether a lazy
\* amount and a reversal were pending, for merge the two lengths; pre what the
\* index operator showed before an apply, in a debug and in a release build).
\* snap: what a tree showed at an earlier call, in a debug and in a release
\* build: "split" after a split of t at a into t and u, "rejoined" once the two
\* halves are merged back; "rev1" and "rev2" after one and two calls of reverse
\* on t.
NoOp == [op |-> "new", t |-> 1, a |-> 0, ok |-> TRUE, ret |-> <<>>, pre |-> <<>>]

NoSnap == [kind |-> "none", t |-> 0, u |-> 0, a |-> 0, obs |-> <<>>]

\* the program has made the trees ts and no call yet, its manager being m
Start(ts, m) ==
    /\ heap = <<>>
    /\ trees = ts
    /\ ghost = [t \in Slots |-> <<>>]
    /\ it = NoIter
    /\ last = NoOp
    /\ snap = NoSnap
    /\ nins = 0
    /\ nops = 0
    /\ build = "any"
    /\ aborted = FALSE
    /\ mgr = m

\* one tree made by MasterTree::new, its generator at the seed; or at any state
\* at all, which gives its calls every outcome of every draw
Init ==
    \E x \in {Seed, AnyRng} :
        Start([t \in Slots |-> IF t = 1 THEN [TNew EXCEPT !.rng = x] ELSE Absent], "add")

\* the same with the generator at any state only: the draws of the seeded
\* generator are among its draws
InitAny == Start([t \in Slots |-> IF t = 1 THEN AnyTree ELSE Absent], "add")

Present(t) == trees[t] # Absent

\* the builds the run may be a run of, each given by whether its overflow
\* checks are on: both while the calls made went the same way in both
Builds == IF build = "any" THEN BOOLEAN ELSE {build = "debug"}

\* the program has not panicked
Ready == ~aborted

\* no iterator borrows tree t: the calls that take &mut self or self, which the
\* borrow checker rejects while iter()'s borrow of the tree is alive, can be
\* made; the calls that take &self, and every call on another tree, always can
Free(t) == it.t # t

\* the budget of calls is not spent; insert has a budget of its own, and a
\* clone, which needs an empty slot, and the iterator's steps go uncounted
Budget == nops < MaxOps

\* the values inserted are distinct labels: the code never compares values
Label == IF mgr = "add" THEN 10 * (nins + 1) ELSE <<nins + 1>>

Did(op, t, a, ret) ==
    [op |-> op, t |-> t, a |-> a, ok |-> TRUE, ret |-> ret, pre |-> <<>>]

\* the call has returned: the next state holds its result r, the heap compacted
Commit(r, b) ==
    /\ heap' = Compact(r.h, r.ts, r.i).h
    /\ trees' = Compact(r.h, r.ts, r.i).ts
    /\ it' = Compact(r.h, r.ts, r.i).it
    /\ ghost' = r.gs
    /\ last' = r.l
    /\ snap' = r.sn
    /\ nins' = IF r.l.op = "insert" THEN nins + 1 ELSE nins
    /\ nops' = IF r.l.op \in {"insert", "clone", "next"} THEN nops ELSE nops + 1
    /\ build' = b
    /\ aborted' = FALSE
    /\ mgr' = mgr

\* a call that panicked: the heap h, the trees ts and the iterator i as the
\* panic finds them
Halt(h, ts, i) == [ok |-> FALSE, h |-> h, ts |-> ts, i |-> i]

\* what the panic f leaves once it has unwound
Wrecked(f) == Compact(Unwind(f.h, f.ts), f.ts, f.i)

\* a panic ends the program, in the state that the unwinding leaves
Abort(f, l, b) ==
    /\ heap' = Wrecked(f).h
    /\ trees' = Wrecked(f).ts
    /\ it' = Wrecked(f).it
    /\ aborted' = TRUE
    /\ last' = [l EXCEPT !.ok = FALSE]
    /\ build' = b
    /\ snap' = NoSnap
    /\ UNCHANGED <<ghost, nins, nops, mgr>>

\* one call, rd being what it does in a debug build and rr in a release build
Outcome(rd, rr, l) ==
    IF build = "release"
    THEN IF rr.ok THEN Commit(rr, "release") ELSE Abort(rr, l, "release")
    ELSE IF rd.ok THEN Commit(rd, "any")
         ELSE \E b \in {"debug", "release"} :
                  IF b = "debug"
                  THEN Abort(rd, l, IF ~rr.ok /\ Wrecked(rr) = Wrecked(rd)
                                    THEN "any" ELSE "debug")
                  ELSE IF rr.ok THEN Commit(rr, "release")
                       ELSE Wrecked(rr) # Wrecked(rd) /\ Abort(rr, l, "release")

\* the result of a call that went well: heap, trees, plain lists, iterator, snapshot
Res(h, ts, gs, i, l, sn) ==
    [ok |-> TRUE, h |-> h, ts |-> ts, gs |-> gs, i |-> i, l |-> l, sn |-> sn]

\* the panic f of a call that takes tree t by &mut self or by value
Lost(f, t) == Halt(f.h, [trees EXCEPT ![t] = f.t], it)

\* the panic f of a call that takes its tree by &self
Kept(f) == Halt(f.h, trees, it)

\* a query keeps a snapshot taken between two reverse calls
SnapQuery == IF snap.kind = "rev1" THEN snap ELSE NoSnap

\* what a snapshot, taken in a debug and in a release build, shows in a build
Seen(dbg, obs) == IF dbg THEN obs[1] ELSE obs[2]

Flag(b) == IF b THEN 1 ELSE 0

\* t.insert(index, Label) with the draws of tape
InsertCall(t, index, tape) ==
    LET l == Did("insert", t, index, <<>>)
        R(dbg) == Else(TInsert(dbg, heap, trees[t], index, Label, tape),
                       LAMBDA f : Lost(f, t),
                       LAMBDA r :
                      Res(r.h, [trees EXCEPT ![t] = r.t],
                          [ghost EXCEPT ![t] = InsertAt(@, index, Label)], it, l, NoSnap))
    IN Outcome(R(TRUE), R(FALSE), l)

Insert(t) ==
    /\ Ready /\ Free(t) /\ Present(t) /\ nins < MaxLen /\ trees[t].len < MaxLen
    /\ \E index \in 0..trees[t].len,
          tape \in Tapes(trees[t].rng, heap, trees[t].root, None) :
         InsertCall(t, index, tape)

\* t.remove(index) with the draws of tape
RemoveCall(t, index, tape) ==
    LET l == Did("remove", t, index, <<>>)
        R(dbg) == Else(TRemove(dbg, heap, trees[t], index, tape),
                       LAMBDA f : Lost(f, t),
                       LAMBDA r :
                      Res(r.h, [trees EXCEPT ![t] = r.t],
                          [ghost EXCEPT ![t] = RemoveAt(@, index)],
                          it, [l EXCEPT !.ret = <<r.v>>], NoSnap))
    IN Outcome(R(TRUE), R(FALSE), l)

Remove(t) ==
    /\ Ready /\ Free(t) /\ Budget /\ Present(t)
    /\ \E index \in 0..(trees[t].len - 1),
          tape \in Tapes(trees[t].rng, heap, trees[t].root, None) :
         RemoveCall(t, index, tape)

Reverse(t) ==
    /\ Ready /\ Free(t) /\ Budget /\ Present(t)
    /\ LET l == Did("reverse", t, 0, <<>>)
           R(dbg) == With(TReverse(heap, trees[t]), LAMBDA r :
                         Res(r.h, [trees EXCEPT ![t] = r.t],
                             [ghost EXCEPT ![t] = Reversed(@)], it, l,
                             IF snap.kind = "rev1" /\ snap.t = t
                             THEN [snap EXCEPT !.kind = "rev2"]
                             ELSE [kind |-> "rev1", t |-> t, u |-> 0, a |-> 0,
                                   obs |-> <<ObsSeq(TRUE, heap, trees[t]),
                                             ObsSeq(FALSE, heap, trees[t])>>]))
       IN Outcome(R(TRUE), R(FALSE), l)

\* t.apply(left..right, &lazy)
ApplyCall(t, left, right, lazy) ==
    LET l == Did("apply", t, left,
                 <<right, lazy, Flag(PendingLazy(heap, trees[t].root)),
                   Flag(PendingRev(heap, trees[t].root))>>)
        R(dbg) == Else(TApply(dbg, heap, trees[t], left, right, lazy),
                       LAMBDA f : Lost(f, t),
                       LAMBDA r :
                      Res(r.h, [trees EXCEPT ![t] = r.t],
                          [ghost EXCEPT ![t] = AddRange(@, left, right, lazy)],
                          it, [l EXCEPT !.pre = <<ObsSeq(TRUE, heap, trees[t]),
                                                   ObsSeq(FALSE, heap, trees[t])>>],
                          NoSnap))
    IN Outcome(R(TRUE), R(FALSE), l)

Apply(t) ==
    /\ Ready /\ Free(t) /\ Budget /\ Present(t)
    /\ \E left \in 0..trees[t].len, right \in 0..trees[t].len, lazy \in Lazys :
         left <= right /\ ApplyCall(t, left, right, lazy)

\* let (t, u) = t.split(index)
SplitCall(t, u, index) ==
    LET l == Did("split", t, index, <<>>)
        R(dbg) == Else(TSplit(dbg, heap, trees[t], index),
                       LAMBDA f : Lost(f, t),
                       LAMBDA r :
                      Res(r.h, [trees EXCEPT ![t] = r.l, ![u] = r.r],
                          [ghost EXCEPT ![t] = Prefix(@, index),
                                        ![u] = SubSeq(ghost[t], index + 1, Len(ghost[t]))],
                          it, l,
                          [kind |-> "split", t |-> t, u |-> u, a |-> index,
                           obs |-> <<ObsQuery(TRUE, heap, trees[t]),
                                     ObsQuery(FALSE, heap, trees[t])>>]))
    IN Outcome(R(TRUE), R(FALSE), l)

Split(t, u) ==
    /\ Ready /\ Free(t) /\ Budget /\ Present(t) /\ ~Present(u)
    /\ \E index \in 0..trees[t].len : SplitCall(t, u, index)

\* t = t.merge(u) with the draws of tape
MergeCall(t, u, tape) ==
    LET l == Did("merge", t, 0, <<trees[t].len, trees[u].len>>)
        R(dbg) == Else(TMerge(dbg, heap, trees[t], trees[u], tape),
                       LAMBDA f : Halt(f.h, [trees EXCEPT ![t] = Absent, ![u] = Absent], it),
                       LAMBDA r :
                      Res(r.h, [trees EXCEPT ![t] = r.t, ![u] = Absent],
                               [ghost EXCEPT ![t] = ghost[t] \o ghost[u], ![u] = <<>>],
                               it, l,
                               IF snap.kind = "split" /\ snap.t = t /\ snap.u = u
                               THEN [snap EXCEPT !.kind = "rejoined"] ELSE NoSnap))
    IN Outcome(R(TRUE), R(FALSE), l)

Merge(t, u) ==
    /\ Ready /\ Free(t) /\ Free(u) /\ Budget /\ Present(t) /\ Present(u) /\ t # u
    /\ trees[t].len + trees[u].len <= MaxLen
    /\ \E tape \in Tapes(trees[t].rng, heap, trees[t].root, trees[u].root) :
         MergeCall(t, u, tape)

Clone(t, u) ==
    /\ Ready /\ Present(t) /\ ~Present(u)
    /\ LET l == Did("clone", t, 0, <<>>)
           R(dbg) == With(TClone(heap, trees[t]), LAMBDA r :
                         Res(r.h, [trees EXCEPT ![u] = r.t], [ghost EXCEPT ![u] = ghost[t]],
                             it, l, NoSnap))
       IN Outcome(R(TRUE), R(FALSE), l)

\* drop of a MasterTree
DropTree(t) ==
    /\ Ready /\ Free(t) /\ Budget /\ Present(t) /\ \E u \in Slots : u # t /\ Present(u)
    /\ LET l == Did("drop", t, 0, <<>>)
           R(dbg) == Res(DropRc(heap, trees[t].root), [trees EXCEPT ![t] = Absent],
                         [ghost EXCEPT ![t] = <<>>], it, l, NoSnap)
       IN Outcome(R(TRUE), R(FALSE), l)

\* t[index]
IndexCall(t, index) ==
    LET l == Did("index", t, 0, <<>>)
        R(dbg) == Else(TIndex(dbg, heap, trees[t], index), LAMBDA f : Kept(f), LAMBDA r :
                      Res(r.h, trees, ghost, it, l, SnapQuery))
    IN Outcome(R(TRUE), R(FALSE), l)

Index(t) ==
    /\ Ready /\ Budget /\ Present(t)
    /\ \E index \in 0..(trees[t].len - 1) : IndexCall(t, index)

\* t.prod(left..right)
ProdCall(t, left, right) ==
    LET l == Did("prod", t, 0, <<>>)
        R(dbg) == Else(TProd(dbg, heap, trees[t], left, right), LAMBDA f : Kept(f),
                       LAMBDA r : Res(r.h, trees, ghost, it, l, SnapQuery))
    IN Outcome(R(TRUE), R(FALSE), l)

Prod(t) ==
    /\ Ready /\ Budget /\ Present(t)
    /\ \E left \in 0..trees[t].len, right \in 0..trees[t].len :
         left <= right /\ ProdCall(t, left, right)

\* format!("{:?}", t): ret is the list of entries printed
Fmt(t) ==
    /\ Ready /\ Budget /\ Present(t)
    /\ LET l == Did("fmt", t, 0, <<>>)
           R(dbg) == Else(TFmt(dbg, heap, trees[t]), LAMBDA f : Kept(f), LAMBDA r :
                         Res(r.h, trees, ghost, it, [l EXCEPT !.ret = r.list], SnapQuery))
       IN Outcome(R(TRUE), R(FALSE), l)

\* i = t.iter(): the iterator borrows the tree until it is dropped; an iterator
\* that i held is dropped
Iter(t) ==
    /\ Ready /\ Budget /\ Present(t)
    /\ LET l == Did("iter", t, 0, <<>>)
           R(dbg) == Else(TIter(dbg, heap, trees[t]), LAMBDA f : Kept(f), LAMBDA r :
                         Res(r.h, trees, ghost,
                                  [t |-> t, stack |-> r.stack, n |-> trees[t].len,
                                   out |-> <<>>],
                                  l, SnapQuery))
       IN Outcome(R(TRUE), R(FALSE), l)

\* what Iter::next may find at the address on top of the stack.  The node
\* there may have been freed: a later call copied it for the tree and dropped
\* the last handle on it.  The read of a freed node is undefined behaviour: it
\* finds what the node held, or what a node allocated there since holds or
\* held when it was freed in its turn, or the program crashes (None).  The
\* other nodes of the stack were allocated before the node was freed and are
\* at other addresses.  A node that the call itself allocates there is the
\* pick of IterStep
Found(h, stack) ==
    With(stack[Len(stack)][1], LAMBDA top :
        IF h[top].rc > 0 THEN {top}
        ELSE {None, top} \cup {j \in 1..Len(h) : \A k \in 1..Len(stack) : stack[k][1] # j})

\* Iter::next yields an item, ret being the items yielded so far, or ends the
\* program, the stack popped
IterStep ==
    /\ Ready /\ it # NoIter /\ it.stack # <<>>
    /\ \E w \in Found(heap, it.stack) :
       \E pick \in 0..(IF w = None \/ heap[w].rc > 0 THEN 0
                       ELSE Allocs(heap, [it.stack EXCEPT ![Len(it.stack)][1] = w], it.n)) :
         LET l == Did("next", it.t, 0, it.out)
             seen == [it.stack EXCEPT ![Len(it.stack)][1] = w]
             R(dbg) == Else(IterNext(dbg, heap, seen, it.n, pick),
                            LAMBDA f : Halt(f.h, trees, [it EXCEPT !.stack = f.stack]),
                            LAMBDA r :
                           Res(r.h, trees, ghost,
                               [it EXCEPT !.stack = r.stack, !.out = Append(@, r.v)],
                               [l EXCEPT !.ret = Append(@, r.v)], snap))
             rest == SubSeq(it.stack, 1, Len(it.stack) - 1)
         IN IF w = None THEN Abort(Halt(heap, trees, [it EXCEPT !.stack = rest]), l, build)
            ELSE Outcome(R(TRUE), R(FALSE), l)

\* Iter::next returns None from the exhausted iterator (a = 0), or the iterator
\* is dropped before that (a = 1)
IterEnd ==
    /\ Ready /\ it # NoIter
    /\ it' = NoIter
    /\ last' = Did("end", it.t, IF it.stack = <<>> THEN 0 ELSE 1, it.out)
    /\ UNCHANGED <<heap, trees, ghost, snap, nins, nops, build, aborted, mgr>>

Call ==
    \/ \E t \in Slots : Insert(t)
    \/ \E t \in Slots : Remove(t)
    \/ \E t \in Slots : Reverse(t)
    \/ \E t \in Slots : Apply(t)
    \/ \E t \in Slots, u \in Slots : Split(t, u)
    \/ \E t \in Slots, u \in Slots : Merge(t, u)
    \/ \E t \in Slots, u \in Slots : Clone(t, u)
    \/ \E t \in Slots : DropTree(t)
    \/ \E t \in Slots : Index(t)
    \/ \E t \in Slots : Prod(t)
    \/ \E t \in Slots : Fmt(t)
    \/ \E t \in Slots : Iter(t)

\* every public operation, in runs of at most MaxCalls calls that change a tree
\* or query one
Next ==
    \/ nins + nops < MaxCalls /\ Call
    \/ IterStep
    \/ IterEnd

Spec == Init /\ [][Next]_vars

NextIns == Insert(1) \/ Index(1)

\* insert and the index operator
SpecIns == Init /\ [][NextIns]_vars

NextCore ==
    \/ \E t \in Slots : Insert(t)
    \/ \E t \in Slots : Reverse(t)
    \/ \E t \in Slots : Apply(t)
    \/ \E t \in Slots, u \in Slots : Split(t, u)
    \/ \E t \in Slots, u \in Slots : Merge(t, u)
    \/ \E t \in Slots : Index(t)
    \/ \E t \in Slots : Prod(t)

\* insert, reverse, apply, split, merge and the index and prod queries
SpecCore == Init /\ [][NextCore]_vars

NextOps ==
    \/ \E t \in Slots : Insert(t)
    \/ \E t \in Slots : Remove(t)
    \/ \E t \in Slots : Reverse(t)
    \/ \E t \in Slots : Apply(t)
    \/ \E t \in Slots, u \in Slots : Split(t, u)
    \/ \E t \in Slots, u \in Slots : Merge(t, u)
    \/ \E t \in Slots : Index(t)
    \/ \E t \in Slots : Prod(t)

\* every operation that changes a tree, and the index and prod queries
SpecOps == InitAny /\ [][NextOps]_vars

NextRem == Insert(1) \/ Remove(1) \/ Reverse(1) \/ Index(1) \/ Prod(1)

\* one tree under insert, remove, reverse and the index and prod queries
SpecRem == Init /\ [][NextRem]_vars

\* the inserts that build the tree come before the first remove
Grow == nops = 0 /\ Insert(1)

NextDrain == Grow \/ Remove(1)

\* a tree built by inserts, then emptied by removes
SpecDrain == Init /\ [][NextDrain]_vars

NextQry == Insert(1) \/ Reverse(1) \/ Index(1) \/ Prod(1) \/ Iter(1) \/ IterStep \/ IterEnd

\* one tree under insert, reverse and every query
SpecQry == Init /\ [][NextQry]_vars

\* the original is built before it is cloned
BuildInsert == ~Present(2) /\ Insert(1)

BuildReverse == ~Present(2) /\ Reverse(1)

NextCow ==
    \/ BuildInsert \/ BuildReverse \/ Clone(1, 2)
    \/ Insert(2) \/ Remove(2) \/ Reverse(2)

\* a tree and its clone: the original is built, cloned and read, the clone changed
SpecCow == Init /\ [][NextCow]_vars

\* calls with arguments the contract rules out, up to MaxPast past the length
InsertPast(t) ==
    /\ Ready /\ Free(t) /\ Present(t) /\ nins < MaxLen /\ trees[t].len >= 0
    /\ \E index \in (trees[t].len + 1)..(trees[t].len + MaxPast),
          tape \in Tapes(trees[t].rng, heap, trees[t].root, None) :
         InsertCall(t, index, tape)

SplitPast(t, u) ==
    /\ Ready /\ Free(t) /\ Budget /\ Present(t) /\ ~Present(u) /\ trees[t].len >= 0
    /\ \E index \in (trees[t].len + 1)..(trees[t].len + MaxPast) : SplitCall(t, u, index)

RemovePast(t) ==
    /\ Ready /\ Free(t) /\ Budget /\ Present(t) /\ trees[t].len >= 0
    /\ \E index \in trees[t].len..(trees[t].len + MaxPast - 1),
          tape \in Tapes(trees[t].rng, heap, trees[t].root, None) :
         RemoveCall(t, index, tape)

IndexPast(t) ==
    /\ Ready /\ Budget /\ Present(t) /\ trees[t].len >= 0
    /\ \E index \in trees[t].len..(trees[t].len + MaxPast - 1) : IndexCall(t, index)

\* the ranges left..right that end past the length or start after their end
BadRanges(len) ==
    {rg \in (0..(len + MaxPast)) \X (0..(len + MaxPast)) : rg[2] > len \/ rg[1] > rg[2]}

ProdPast(t) ==
    /\ Ready /\ Budget /\ Present(t) /\ trees[t].len >= 0
    /\ \E rg \in BadRanges(trees[t].len) : ProdCall(t, rg[1], rg[2])

ApplyPast(t) ==
    /\ Ready /\ Free(t) /\ Budget /\ Present(t) /\ trees[t].len >= 0
    /\ \E rg \in BadRanges(trees[t].len), lazy \in Lazys : ApplyCall(t, rg[1], rg[2], lazy)

\* a tree built by insert and reverse, and inserts and splits past its length
NextPastIns == Insert(1) \/ Reverse(1) \/ InsertPast(1) \/ SplitPast(1, 2)

SpecPastIns == Init /\ [][NextPastIns]_vars

\* a tree built by insert, remove and reverse, and removes and indexings at or
\* past its length
NextPastRem ==
    Insert(1) \/ Remove(1) \/ Reverse(1) \/ RemovePast(1) \/ IndexPast(1)

SpecPastRem == Init /\ [][NextPastRem]_vars

\* a tree built by insert and reverse, and prods and applies over ranges that
\* are not within it
NextPastRng == Insert(1) \/ Reverse(1) \/ ProdPast(1) \/ ApplyPast(1)

SpecPastRng == Init /\ [][NextPastRng]_vars

NextShare ==
    \/ BuildInsert \/ BuildReverse \/ Clone(1, 2)
    \/ Index(1) \/ Prod(1) \/ Reverse(2) \/ Index(2)

\* a tree and its clone, which share their nodes, under the index and prod queries
SpecShare == Init /\ [][NextShare]_vars

\* two trees that start empty
InitTwin == Start([t \in Slots |-> AnyTree], "add")

\* the result of the same call on tree 1 and on tree 2
Both(a, b, gs, l) == Res(b.h, [trees EXCEPT ![1] = a.t, ![2] = b.t], gs, it, l, NoSnap)

\* the call on tree 2 panics with f after the same call on tree 1 gave a
Second(a, f) == Halt(f.h, [trees EXCEPT ![1] = a.t, ![2] = f.t], it)

\* the same insert on both trees, each with coin flips of its own
TwinInsert ==
    /\ Ready /\ Free(1) /\ Free(2) /\ nins < MaxLen
    /\ \E index \in 0..trees[1].len,
          tape1 \in Tapes(trees[1].rng, heap, trees[1].root, None),
          tape2 \in Tapes(trees[2].rng, heap, trees[2].root, None) :
         LET l == Did("insert", 1, index, <<>>)
             R(dbg) ==
                 Else(TInsert(dbg, heap, trees[1], index, Label, tape1),
                      LAMBDA f : Lost(f, 1), LAMBDA a :
                 Else(TInsert(dbg, a.h, trees[2], index, Label, tape2),
                      LAMBDA f : Second(a, f), LAMBDA b :
                     Both(a, b, [t \in Slots |-> InsertAt(ghost[t], index, Label)], l)))
         IN Outcome(R(TRUE), R(FALSE), l)

\* the same remove on both trees, each with coin flips of its own
TwinRemove ==
    /\ Ready /\ Free(1) /\ Free(2) /\ Budget
    /\ \E index \in 0..(trees[1].len - 1),
          tape1 \in Tapes(trees[1].rng, heap, trees[1].root, None),
          tape2 \in Tapes(trees[2].rng, heap, trees[2].root, None) :
         LET l == Did("remove", 1, index, <<>>)
             R(dbg) ==
                 Else(TRemove(dbg, heap, trees[1], index, tape1),
                      LAMBDA f : Lost(f, 1), LAMBDA a :
                 Else(TRemove(dbg, a.h, trees[2], index, tape2),
                      LAMBDA f : Second(a, f), LAMBDA b :
                     Both(a, b, [t \in Slots |-> RemoveAt(ghost[t], index)],
                          [l EXCEPT !.ret = <<a.v, b.v>>])))
         IN Outcome(R(TRUE), R(FALSE), l)

\* reverse on both trees
TwinReverse ==
    /\ Ready /\ Free(1) /\ Free(2) /\ Budget
    /\ LET l == Did("reverse", 1, 0, <<>>)
           R(dbg) ==
               With(TReverse(heap, trees[1]), LAMBDA a :
               With(TReverse(a.h, trees[2]), LAMBDA b :
                   Both(a, b, [t \in Slots |-> Reversed(ghost[t])], l)))
       IN Outcome(R(TRUE), R(FALSE), l)

\* the same apply on both trees
TwinApply ==
    /\ Ready /\ Free(1) /\ Free(2) /\ Budget
    /\ \E left \in 0..trees[1].len, right \in 0..trees[1].len, lazy \in Lazys :
         /\ left <= right
         /\ LET l == Did("apply", 1, left, <<right, lazy>>)
                R(dbg) ==
                    Else(TApply(dbg, heap, trees[1], left, right, lazy),
                         LAMBDA f : Lost(f, 1), LAMBDA a :
                    Else(TApply(dbg, a.h, trees[2], left, right, lazy),
                         LAMBDA f : Second(a, f), LAMBDA b :
                        Both(a, b, [t \in Slots |-> AddRange(ghost[t], left, right, lazy)], l)))
            IN Outcome(R(TRUE), R(FALSE), l)

NextTwin ==
    nins + nops < MaxOps /\ (TwinInsert \/ TwinRemove \/ TwinReverse \/ TwinApply)

\* the same sequence of at most MaxOps calls made on two trees whose coin flips
\* differ
SpecTwin == InitTwin /\ [][NextTwin]_vars

\* ---------------------------------------------------------------- tests::add_sum
\* the calls of the test; to says that the range is open at its end, want is
\* the value the test asserts
TestCall(op, t, a, b, to, c, want) ==
    [op |-> op, t |-> t, a |-> a, b |-> b, to |-> to, c |-> c, want |-> want]

Items == <<3, 1, 4, 1, 5, 9, 2, 6, 5, 3, 5, 8, 9, 7, 9, 3>>

HandCalculation == <<63, 65, 68, 49, 47, 49, 43, 43, 41, 44, 41, 45, 49, 42, 66, 65>>

Script ==
    [j \in 1..Len(Items) |-> TestCall("insert", 1, 0, 0, FALSE, Items[j], <<>>)]
    \o <<TestCall("reverse", 1, 0, 0, FALSE, 0, <<>>),
         TestCall("prod", 1, 4, 12, FALSE, 0, <<43>>),
         TestCall("prod", 1, 5, 0, TRUE, 0, <<66>>),
         TestCall("apply", 1, 7, 12, FALSE, 20, <<>>),
         TestCall("apply", 1, 0, 0, TRUE, 40, <<>>),
         TestCall("prod", 1, 4, 12, FALSE, 0, <<463>>),
         TestCall("prod", 1, 5, 0, TRUE, 0, <<606>>),
         TestCall("split", 1, 9, 0, FALSE, 0, <<>>),
         TestCall("prod", 1, 3, 6, FALSE, 0, <<135>>),
         TestCall("prod", 2, 0, 5, FALSE, 0, <<292>>),
         TestCall("merge", 2, 0, 0, FALSE, 0, <<>>)>>
    \o [j \in 1..Len(HandCalculation) |->
           TestCall("index", 2, j - 1, 0, FALSE, 0, <<HandCalculation[j]>>)]

\* the calls made so far
Made == nins + nops

\* the next call of the test is op
At(op) == Ready /\ it = NoIter /\ Made < Len(Script) /\ Script[Made + 1].op = op

\* the end of the range of call c on a tree of length len
RangeEnd(c, len) == IF c.to THEN len ELSE c.b

\* the draws of one insert under the handle a from the generator x.  Of the
\* generator of a pass they are its words.  Of a generator in any state they
\* are the tapes of least and greatest words that turn at most once: an insert
\* goes down while choose gives true and draws no more once it gives false,
\* so that these take it to each depth it can reach
Draws(x, h, a, b) ==
    IF x = AnyRng
    THEN With(Size(h, a) + Size(h, b), LAMBDA n :
             {[j \in 1..n |-> IF j <= k THEN w[1] ELSE w[2]] :
                  k \in 0..n, w \in {<<Lo, Hi>>, <<Hi, Lo>>}})
    ELSE Tapes(x, h, a, b)

\* how far the tree under handle id is from a chain: the lesser of the number
\* of its nodes that have a left child and of those that have a right child
Bend(h, id) ==
    With(Visit(h, id, <<>>), LAMBDA o :
    With(Cardinality({j \in 1..Len(o) : h[o[j]].left # None}), LAMBDA l :
    With(Cardinality({j \in 1..Len(o) : h[o[j]].right # None}), LAMBDA r :
        IF l < r THEN l ELSE r)))

\* a call that draws from a generator in any state is made on a tree t within
\* MaxBend of a chain
Followed(h, t) == t.rng = AnyRng => Bend(h, t.root) <= MaxBend

\* the number of nodes on the right spine (right = TRUE) or on the left spine
\* of the tree under handle id, as Node::setup lays it out: flip tells that a
\* reversal is pending from above
RECURSIVE Spine(_, _, _, _)
Spine(h, id, right, flip) ==
    IF id = None THEN 0
    ELSE With(h[id].rev # flip, LAMBDA f :
             1 + Spine(h, IF right # f THEN h[id].right ELSE h[id].left, right, f))

\* the draws of a merge that may take p nodes more from the right spine of its
\* left tree (the least word) and q more from the left spine of its right tree
\* (the greatest): it draws once for each node it takes, until the node taken
\* is the last of its spine
RECURSIVE Paths(_, _)
Paths(p, q) ==
    {<<Lo>> \o t : t \in IF p = 1 THEN {<<>>} ELSE Paths(p - 1, q)}
        \cup {<<Hi>> \o t : t \in IF q = 1 THEN {<<>>} ELSE Paths(p, q - 1)}

\* the draws of the merge of the trees under a and b from the generator x: of a
\* generator in any state, each of the ways the merge can go
MergeDraws(x, h, a, b) ==
    IF x = AnyRng THEN Paths(Spine(h, a, TRUE, FALSE), Spine(h, b, FALSE, FALSE))
    ELSE Tapes(x, h, a, b)

ScenInsert ==
    /\ At("insert") /\ Followed(heap, trees[1])
    /\ \E tape \in Draws(trees[1].rng, heap, trees[1].root, None) :
         LET c == Script[Made + 1]
             l == Did("insert", c.t, c.a, <<>>)
             R(dbg) == Else(TInsert(dbg, heap, trees[c.t], c.a, c.c, tape),
                            LAMBDA f : Lost(f, c.t), LAMBDA r :
                           Res(r.h, [trees EXCEPT ![c.t] = r.t],
                               [ghost EXCEPT ![c.t] = InsertAt(@, c.a, c.c)], it, l, NoSnap))
         IN Outcome(R(TRUE), R(FALSE), l)

ScenReverse ==
    /\ At("reverse")
    /\ LET c == Script[Made + 1]
           l == Did("reverse", c.t, 0, <<>>)
           R(dbg) == With(TReverse(heap, trees[c.t]), LAMBDA r :
                         Res(r.h, [trees EXCEPT ![c.t] = r.t],
                             [ghost EXCEPT ![c.t] = Reversed(@)], it, l, NoSnap))
       IN Outcome(R(TRUE), R(FALSE), l)

ScenProd ==
    /\ At("prod")
    /\ LET c == Script[Made + 1]
           l == Did("prod", c.t, c.a, <<>>)
           R(dbg) == Else(TProd(dbg, heap, trees[c.t], c.a, RangeEnd(c, trees[c.t].len)),
                         LAMBDA f : Kept(f),
                         LAMBDA r : Res(r.h, trees, ghost, it, [l EXCEPT !.ret = <<r.v>>],
                                        NoSnap))
       IN Outcome(R(TRUE), R(FALSE), l)

ScenApply ==
    /\ At("apply")
    /\ ApplyCall(Script[Made + 1].t, Script[Made + 1].a,
                 RangeEnd(Script[Made + 1], trees[Script[Made + 1].t].len), Script[Made + 1].c)

\* let (mt2, mt3) = mt.split(9): mt2 takes the place of mt
ScenSplit ==
    /\ At("split")
    /\ LET c == Script[Made + 1]
           l == Did("split", 1, c.a, <<>>)
           R(dbg) == Else(TSplit(dbg, heap, trees[1], c.a), LAMBDA f : Lost(f, 1),
                          LAMBDA r :
                         Res(r.h, [trees EXCEPT ![1] = r.l, ![2] = r.r],
                             [ghost EXCEPT ![1] = Prefix(@, c.a),
                                           ![2] = SubSeq(ghost[1], c.a + 1, Len(ghost[1]))],
                             it, l, NoSnap))
       IN Outcome(R(TRUE), R(FALSE), l)

\* mt = mt3.merge(mt2), which draws from the generator of mt3
ScenMerge ==
    /\ At("merge")
    /\ Followed(heap, trees[2]) /\ Followed(heap, [trees[1] EXCEPT !.rng = trees[2].rng])
    /\ \E tape \in MergeDraws(trees[2].rng, heap, trees[2].root, trees[1].root) :
         MergeCall(2, 1, tape)

ScenIndex ==
    /\ At("index")
    /\ LET c == Script[Made + 1]
           l == Did("index", c.t, c.a, <<>>)
           R(dbg) == Else(TIndex(dbg, heap, trees[c.t], c.a), LAMBDA f : Kept(f),
                          LAMBDA r :
                         Res(r.h, trees, ghost, it, [l EXCEPT !.ret = <<r.v>>], NoSnap))
       IN Outcome(R(TRUE), R(FALSE), l)

NextScen ==
    \/ ScenInsert \/ ScenReverse \/ ScenProd \/ ScenApply
    \/ ScenSplit \/ ScenMerge \/ ScenIndex

\* the number of passes of the loop of the test
Passes == 1000

\* the generators that the test gives its trees: one rng.make() for each pass,
\* x being the generator of the test before the first
TestRngs(n, x) ==
    With(Words(x, n - 1), LAMBDA w : {Make(s) : s \in {x} \cup {w[j] : j \in 1..(n - 1)}})

\* the start of a pass: mt = MasterTree::new(); mt.2 = rng.make().  Beside the
\* generators of the test, a generator in any state
InitScen ==
    \E x \in TestRngs(Passes, Seed) \cup {AnyRng} :
        Start([t \in Slots |-> IF t = 1 THEN [TNew EXCEPT !.rng = x] ELSE Absent], "add")

\* the calls of tests::add_sum, in each of its passes and with a generator in
\* any state
SpecScen == InitScen /\ [][NextScen]_vars

\* a tree is filled at its front up to MaxFill elements before anything else
FillFront(t) ==
    /\ Ready /\ Free(t) /\ Present(t) /\ nops = 0 /\ nins < MaxFill
    /\ \E tape \in Tapes(trees[t].rng, heap, trees[t].root, None) : InsertCall(t, 0, tape)

\* the first call after the tree is full is a remove
RemoveOnce(t) ==
    /\ Ready /\ Free(t) /\ Budget /\ Present(t) /\ nops = 0 /\ trees[t].len = MaxFill
    /\ \E index \in 0..(trees[t].len - 1),
          tape \in Tapes(trees[t].rng, heap, trees[t].root, None) :
         RemoveCall(t, index, tape)

\* the call after the remove is a split
SplitAfter(t, u) == nops = 1 /\ last.op = "remove" /\ Split(t, u)

NextSplit == FillFront(1) \/ RemoveOnce(1) \/ SplitAfter(1, 2)

\* a tree of MaxFill elements, one remove and one split
SpecSplit == Init /\ [][NextSplit]_vars

\* an insert into a tree whose length is usize::MAX
InsertFull(t) ==
    /\ Ready /\ Free(t) /\ Present(t) /\ nins < MaxLen /\ trees[t].len = UMax
    /\ \E index \in 0..MaxPast,
          tape \in Tapes(trees[t].rng, heap, trees[t].root, None) :
         InsertCall(t, index, tape)

\* the lengths a and b add up to more than usize::MAX
Overflows(a, b) == IF a < 0 /\ b < 0 THEN TRUE ELSE (a < 0 \/ b < 0) /\ a + b >= 0

\* a merge of two trees whose lengths add up to more than usize::MAX
MergeOver(t, u) ==
    /\ Ready /\ Free(t) /\ Free(u) /\ Budget /\ Present(t) /\ Present(u) /\ t # u
    /\ Overflows(trees[t].len, trees[u].len)
    /\ \E tape \in Tapes(trees[t].rng, heap, trees[t].root, trees[u].root) : MergeCall(t, u, tape)

\* a length near usize::MAX comes from a split past the length, which gives its
\* right part the wrapped length len - index when overflow checks are off
NextOver ==
    \/ Insert(1) \/ Reverse(1) \/ SplitPast(1, 2)
    \/ InsertFull(2) \/ MergeOver(1, 2) \/ MergeOver(2, 1)

SpecOver == Init /\ [][NextOver]_vars

\* ---------------------------------------------------------------- an op that does not commute
\* the empty tree of the manager whose op is concatenation
InitCat == Start([t \in Slots |-> IF t = 1 THEN AnyTree ELSE Absent], "cat")

NextCat == Insert(1) \/ Reverse(1) \/ Index(1) \/ Prod(1)

\* one tree of that manager under insert, reverse and the index and prod queries
SpecCat == InitCat /\ [][NextCat]_vars

\* ---------------------------------------------------------------- lazy amounts and iter
NextLazy == Insert(1) \/ Apply(1) \/ Prod(1) \/ Fmt(1) \/ Iter(1) \/ IterStep \/ IterEnd

\* one tree under insert, apply, prod, fmt and iter
SpecLazy == Init /\ [][NextLazy]_vars

\* ---------------------------------------------------------------- a tree merged with its clone
\* let t = t.clone().merge(t): tree 2, the clone of tree 1, takes tree 1; the
\* merged tree has up to 2 * (MaxLen - 1) elements
SelfMerge ==
    /\ Ready /\ Free(1) /\ Free(2) /\ Budget /\ Present(1) /\ Present(2)
    /\ trees[1].len < MaxLen
    /\ \E tape \in Tapes(trees[2].rng, heap, trees[2].root, trees[1].root) : MergeCall(2, 1, tape)

\* the calls that change the merged tree
AfterMerge == ~Present(1) /\ (Reverse(2) \/ Apply(2) \/ Remove(2))

NextSelf == BuildInsert \/ BuildReverse \/ Clone(1, 2) \/ SelfMerge \/ AfterMerge

\* a tree is built, cloned and merged with its clone; the merged tree is then
\* changed
SpecSelf == Init /\ [][NextSelf]_vars

\* ---------------------------------------------------------------- sanity
\* the handle counts agree with the handles held
RcConsistent ==
    \A id \in 1..Len(heap) : heap[id].rc > 0 => heap[id].rc = InDegree(heap, trees, id)

\* every tree shows what the plain list shows
MatchesList ==
    \A t \in Slots, dbg \in Builds : Present(t) =>
        /\ trees[t].len = Len(ghost[t])
        /\ ObsSeq(dbg, heap, trees[t]) = Boxed(ghost[t])
        /\ ObsProd(dbg, heap, trees[t]) = ListProd(ghost[t])

\* ---------------------------------------------------------------- claims
\* the step is a call of op, completed or ended by a panic
Called(op) == last'.op = op /\ <<nins, nops, aborted>>' # <<nins, nops, aborted>>

\* C1: after any inserts into an empty tree, whatever the coin flips, len() is the
\* number of inserts and tree[i] is the i-th element of the plain list given the
\* same inserts
InsertsMatchList ==
    /\ ~aborted
    /\ trees[1].len = nins
    /\ Len(ghost[1]) = nins
    /\ \A dbg \in Builds : ObsSeq(dbg, heap, trees[1]) = Boxed(ghost[1])

\* three inserts, the last between the two elements already there
InsertedBetween ==
    /\ last.op = "insert" /\ last.ok /\ last.a = 1
    /\ trees[1].len = 3

\* C2: on every tree reached by public operations remove(index), index < len,
\* completes, returns the value tree[index] showed before the call and makes
\* len() one less
RemoveReturns ==
    [][Called("remove")
        => /\ last'.ok
           /\ \A dbg \in Builds' :
                  last'.ret = ObsSeq(dbg, heap, trees[last'.t])[last'.a + 1]
           /\ trees'[last'.t].len = trees[last'.t].len - 1]_vars

\* C3: after a remove(index) that returns, the index operator shows the sequence
\* it showed before with the element at index deleted and the others in order
RemoveDeletes ==
    [][(Called("remove") /\ last'.ok)
        => \A dbg \in Builds' :
               ObsSeq(dbg, heap', trees'[last'.t])
               = RemoveAt(ObsSeq(dbg, heap, trees[last'.t]), last'.a)]_vars

\* C4: of a tree built by n inserts, each of n removes completes and the last
\* leaves the empty tree: len() = 0 and no root
DrainEmpties ==
    last.op = "remove" =>
        (last.ok /\ (nops = nins => (trees[1].root = None /\ trees[1].len = 0)))

\* C5: split(i) followed by the merge of the two halves completes and gives back
\* the len(), every element and every prod the tree showed before the split,
\* whatever the coin flips
SplitMergeRestores ==
    /\ last.op \in {"split", "merge"} => last.ok
    /\ snap.kind = "rejoined" => \A dbg \in Builds :
        LET before == Seen(dbg, snap.obs)
            after == ObsQuery(dbg, heap, trees[snap.t])
        IN /\ after.len = before.len
           /\ \A j \in DOMAIN before.seq :
                before.seq[j] # <<>> => after.seq[j] = before.seq[j]
           /\ \A rg \in DOMAIN before.prod :
                before.prod[rg] # <<>> => after.prod[rg] = before.prod[rg]

\* C6: after two calls of reverse(), with or without queries in between, the
\* index operator shows the sequence it showed before the two calls
ReverseTwice ==
    snap.kind = "rev2" =>
        \A dbg \in Builds : ObsSeq(dbg, heap, trees[snap.t]) = Seen(dbg, snap.obs)

\* C7: on every tree reached by insert, reverse, apply, split and merge, prod(l..r)
\* is the sum of the elements l..r-1 of the logical sequence, for all l <= r <= len
ProdIsSum ==
    /\ ~aborted
    /\ \A t \in Slots, dbg \in Builds :
           Present(t) => ObsProd(dbg, heap, trees[t]) = ListProd(ghost[t])

\* a tree of three elements with a lazy amount and a reversal pending at its root
PendingAtRoot ==
    \E t \in Slots :
        /\ Present(t) /\ trees[t].len = 3
        /\ heap[trees[t].root].rev /\ heap[trees[t].root].info.lz # 0

\* C8: apply(l..r, c) completes; after it the index operator shows every element
\* of l..r-1 increased by c once and every other element as before, and every
\* prod is the sum over the sequence the index operator shows
ApplyAddsOnce ==
    last.op = "apply" =>
        /\ last.ok
        /\ \A dbg \in Builds :
             LET t == last.t
                 pre == Seen(dbg, last.pre)
                 after == ObsSeq(dbg, heap, trees[t])
             IN /\ Len(after) = Len(pre)
                /\ \A j \in 1..Len(pre) :
                     pre[j] # <<>> =>
                         after[j] = IF last.a < j /\ j <= last.ret[1]
                                    THEN <<pre[j][1] + last.ret[2]>> ELSE pre[j]
                /\ (\A j \in 1..Len(after) : after[j] # <<>>) =>
                     ObsProd(dbg, heap, trees[t])
                     = ListProd([j \in 1..Len(after) |-> after[j][1]])

\* a call on tree t that changes it has completed in this step
Mutated(t) ==
    /\ last'.t = t /\ last'.ok
    /\ \E op \in {"insert", "remove", "reverse", "apply", "split", "merge"} : Called(op)

\* C9: with c = t.clone() (tree 2 of tree 1), no call that changes c changes what
\* len(), the index operator, prod and iter show of t
CloneIsolated ==
    [][(Present(1) /\ Present(2) /\ Mutated(2))
        => \A dbg \in Builds' :
               Obs(dbg, heap', trees'[1]) = Obs(dbg, heap, trees[1])]_vars

\* the same of len(), the index operator and prod alone
CloneKeepsQueries ==
    [][(Present(1) /\ Present(2) /\ Mutated(2))
        => \A dbg \in Builds' :
               ObsQuery(dbg, heap', trees'[1]) = ObsQuery(dbg, heap, trees[1])]_vars

\* C10: the len field of every tree is the number of elements reachable from
\* its root
LenCountsNodes ==
    ~aborted => \A t \in Slots : Present(t) => trees[t].len = Size(heap, trees[t].root)

\* every node under handle id stores in idx the size of its stored left subtree
RECURSIVE WellIndexed(_, _)
WellIndexed(h, id) ==
    id = None \/ (/\ h[id].idx = Size(h, h[id].left)
                  /\ WellIndexed(h, h[id].left)
                  /\ WellIndexed(h, h[id].right))

\* C11: after every public operation that completes, every node reachable from
\* a tree's root has idx equal to the number of elements of its stored left
\* subtree, and the length of each subtree is idx + 1 + the size of the right one
IdxCountsLeft ==
    ~aborted =>
        \A t \in Slots : Present(t) =>
            /\ WellIndexed(heap, trees[t].root)
            /\ trees[t].len = Size(heap, trees[t].root)

\* C12: insert(index, v) and split(index) with index > len() panic in a debug and
\* in a release build, and return no tree
InsertSplitPastAbort ==
    [][(InsertPast(1) \/ SplitPast(1, 2)) => aborted']_vars

\* C13: remove(index) and tree[index] with index >= len() panic in a debug and in
\* a release build, and return no value
RemoveIndexPastAbort ==
    [][(RemovePast(1) \/ IndexPast(1)) => aborted']_vars

\* C14: prod(range) and apply(range, lazy) panic in a debug and in a release build
\* when the range ends past len() or starts after its end, and change nothing
ProdApplyPastAbort ==
    [][(ProdPast(1) \/ ApplyPast(1)) => aborted']_vars

\* in a debug and in a release build, with any coin flips, insert panics on a
\* tree of length usize::MAX and merge panics on two trees whose lengths add up
\* to more than usize::MAX, with the heap as it was and no draw made; the
\* insert leaves its tree as it was
OverflowPanics ==
    \A t \in Slots : Present(t) =>
        /\ trees[t].len = UMax =>
              \A dbg \in BOOLEAN, index \in 0..MaxPast,
                 tape \in Tapes(trees[t].rng, heap, trees[t].root, None) :
                  TInsert(dbg, heap, trees[t], index, Label, tape) = Wreck(heap, trees[t], 0)
        /\ \A u \in Slots : (u # t /\ Present(u) /\ Overflows(trees[t].len, trees[u].len)) =>
              \A dbg \in BOOLEAN,
                 tape \in Tapes(trees[t].rng, heap, trees[t].root, trees[u].root) :
                  TMerge(dbg, heap, trees[t], trees[u], tape) = Wreck(heap, Absent, 0)

\* C15: a merge whose combined length exceeds usize::MAX and an insert into a
\* tree of length usize::MAX panic in every build, whatever the coin flips,
\* before a node is written and before a coin flip is drawn; no length wraps
\* around: the insert leaves every node and every length as it was, and of the
\* two trees that the merge took no tree is left
LengthOverflowAborts ==
    /\ []OverflowPanics
    /\ [][InsertFull(2) => (aborted' /\ heap' = heap /\ trees' = trees)]_vars
    /\ [][(MergeOver(1, 2) \/ MergeOver(2, 1))
            => (aborted' /\ \A t \in Slots : trees'[t] = Absent)]_vars

\* a merge of lengths adding up to more than usize::MAX has panicked
MergeOverflowed ==
    /\ aborted /\ last.op = "merge"
    /\ Overflows(last.ret[1], last.ret[2])
    /\ \A t \in Slots : ~Present(t)

\* the call that turned heap h into h2 wrote no field of a node of h that more
\* than one handle held
SharedKept(h, h2) ==
    \A id \in 1..Len(h) : h[id].rc > 1 => [h2[id] EXCEPT !.rc = h[id].rc] = h[id]

\* C16: no node is written in place while its reference count is greater than
\* one; in particular tree[index], whose setup flushes the nodes on its path,
\* leaves the value, info, idx, reversed flag and children of every shared node
\* as they were
QueryKeepsShared ==
    ~aborted =>
        \A t \in Slots, dbg \in Builds : Present(t) =>
            \A index \in 0..(trees[t].len - 1) :
                With(TIndex(dbg, heap, trees[t], index), LAMBDA r :
                    r.ok => SharedKept(heap, r.h))

\* C17: whatever the coin flips, the same sequence of calls gives the same
\* observable results: two trees that went through the same calls with coin flips
\* of their own show the same len(), tree[i] and prod, and the same remove
\* returns the same on both
CoinsUnseen ==
    ~aborted => \A dbg \in Builds :
        /\ ObsQuery(dbg, heap, trees[1]) = ObsQuery(dbg, heap, trees[2])
        /\ \A index \in 0..(trees[1].len - 1),
              tape1 \in Tapes(trees[1].rng, heap, trees[1].root, None),
              tape2 \in Tapes(trees[2].rng, heap, trees[2].root, None) :
               Shown(TRemove(dbg, heap, trees[1], index, tape1))
                   = Shown(TRemove(dbg, heap, trees[2], index, tape2))

\* C18: the calls of tests::add_sum go through without a panic, and every prod
\* and every tree[i] that the test asserts returns the value the test expects:
\* in each of the passes of the test and, of a generator in any state, for
\* every way the coin flips fall in the runs that make each insert and the
\* merge on trees within MaxBend of a chain
ScenarioHolds ==
    /\ ~aborted
    /\ (Made > 0 /\ Script[Made].want # <<>>) => last.ret = Script[Made].want

\* the test has run to its last assertion with a generator in any state, on a
\* tree whose root is not its last element
ScenarioDone ==
    /\ Made = Len(Script) /\ ~aborted /\ last.op = "index"
    /\ trees[2].rng = AnyRng
    /\ heap[trees[2].root].val # HandCalculation[Len(HandCalculation)]

\* C19: reverse() completes and keeps len(); after it tree[i] is what
\* tree[len - 1 - i] was before it, for every i < len, whatever the shape of the
\* tree and whatever is pending in it; an empty tree stays as it is
ReverseMirrors ==
    [][Called("reverse") => \A dbg \in Builds' :
        With(ObsSeq(dbg, heap, trees[last'.t]), LAMBDA before :
        With(ObsSeq(dbg, heap', trees'[last'.t]), LAMBDA after :
            /\ last'.ok
            /\ trees'[last'.t].len = trees[last'.t].len
            /\ \A j \in 1..Len(before) :
                  before[Len(before) + 1 - j] # <<>> => after[j] = before[Len(before) + 1 - j]
            /\ trees[last'.t].len = 0 => trees'[last'.t] = trees[last'.t]))]_vars

\* C20: split(index), index <= len, completes; its left part has len index and
\* shows the elements 0..index-1 the tree showed, its right part has len
\* len - index and shows the elements index..len-1, in their order, and every
\* prod of a part is the prod the tree gave for the same elements
SplitParts ==
    /\ last.op = "split" => last.ok
    /\ snap.kind = "split" => \A dbg \in Builds :
        With(Seen(dbg, snap.obs), LAMBDA before :
        With(ObsQuery(dbg, heap, trees[snap.t]), LAMBDA l :
        With(ObsQuery(dbg, heap, trees[snap.u]), LAMBDA r :
            /\ l.len = snap.a
            /\ r.len = before.len - snap.a
            /\ \A j \in 1..l.len : before.seq[j] # <<>> => l.seq[j] = before.seq[j]
            /\ \A j \in 1..r.len :
                  before.seq[snap.a + j] # <<>> => r.seq[j] = before.seq[snap.a + j]
            /\ \A rg \in DOMAIN l.prod : before.prod[rg] # <<>> => l.prod[rg] = before.prod[rg]
            /\ \A rg \in DOMAIN r.prod :
                  before.prod[<<rg[1] + snap.a, rg[2] + snap.a>>] # <<>>
                      => r.prod[rg] = before.prod[<<rg[1] + snap.a, rg[2] + snap.a>>])))

\* C21: a.merge(b) completes, whatever the coin flips; the merged tree has the
\* len() of a plus that of b and shows the elements a showed followed by those b
\* showed; merged with an empty tree, a tree shows what it showed
MergeConcats ==
    [][Called("merge") =>
        \A u \in Slots, dbg \in Builds' : (u # last'.t /\ Present(u)) =>
            With(ObsSeq(dbg, heap, trees[last'.t]), LAMBDA sa :
            With(ObsSeq(dbg, heap, trees[u]), LAMBDA sb :
            With(ObsSeq(dbg, heap', trees'[last'.t]), LAMBDA after :
                /\ last'.ok
                /\ trees'[last'.t].len = trees[last'.t].len + trees[u].len
                /\ Len(after) = Len(sa) + Len(sb)
                /\ \A j \in 1..Len(sa) : sa[j] # <<>> => after[j] = sa[j]
                /\ \A j \in 1..Len(sb) : sb[j] # <<>> => after[Len(sa) + j] = sb[j])))]_vars

\* C22: on every tree reached by public operations, with or without a reversal
\* or lazy amounts pending, draining iter() completes and yields len() items,
\* the i-th being what tree[i] returns
IterMatchesIndex ==
    ~aborted =>
        \A t \in Slots, dbg \in Builds : Present(t) =>
            With(ObsIter(dbg, heap, trees[t]), LAMBDA items :
            With(ObsSeq(dbg, heap, trees[t]), LAMBDA seq :
                /\ items # <<>>
                /\ Len(items[1]) = trees[t].len
                /\ \A j \in 1..Len(seq) : seq[j] = <<items[1][j]>>))

\* C23: a query that returns (the index operator, prod, iter() and each item
\* it yields) leaves len(), every tree[i] and every prod(range) of every tree
\* as they were before it, whatever it flushed on its way
QueriesReadOnly ==
    [][(last'.op \in {"index", "prod", "iter", "next"} /\ last'.ok) =>
        \A t \in Slots, dbg \in Builds' : Present(t) =>
            ObsQuery(dbg, heap', trees'[t]) = ObsQuery(dbg, heap, trees[t])]_vars

\* op folded over the values of s from left to right
RECURSIVE OpFold(_)
OpFold(s) == IF s = <<>> THEN E ELSE Op(Head(s), OpFold(Tail(s)))

\* C24: with a manager whose op is associative and does not commute (the
\* concatenation of values), prod(l..r) is op folded over tree[l], ...,
\* tree[r - 1] in that order, for every shape of the tree and every range
ProdInOrder ==
    ~aborted =>
        \A t \in Slots, dbg \in Builds : Present(t) =>
            With(ObsSeq(dbg, heap, trees[t]), LAMBDA seq :
            With(ObsProd(dbg, heap, trees[t]), LAMBDA prod :
                \A rg \in DOMAIN prod :
                    (\A j \in (rg[1] + 1)..rg[2] : seq[j] # <<>>) =>
                        prod[rg] = <<OpFold([j \in 1..(rg[2] - rg[1]) |-> seq[rg[1] + j][1]])>>))

\* C25: with the manager M, whose propagate clears the amount it pushed, a
\* second setup(len) right after a first one changes nothing: the node's value,
\* info, idx, reversed flag and children and the children's info and flags
\* are as the first setup left them
SetupIdempotent ==
    \A id \in 1..Len(heap), len \in 1..MaxLen, dbg \in BOOLEAN :
        With(NodeSetup(dbg, heap, id, len), LAMBDA once :
            once.ok => NodeSetup(dbg, once.h, id, len) = once)

\* a node with two children has a lazy amount and a reversal to flush
SetupFlushes ==
    \E id \in 1..Len(heap), dbg \in Builds :
        /\ heap[id].rev /\ heap[id].info.lz # 0
        /\ heap[id].left # None /\ heap[id].right # None
        /\ NodeSetup(dbg, heap, id, Size(heap, id)).ok
        /\ NodeSetup(dbg, heap, id, Size(heap, id)).h # heap

\* the info of every node under handle id is what make_info gives for its
\* children's info and its value, plus its pending amount once for each
\* element of its subtree
RECURSIVE Recomputable(_, _)
Recomputable(h, id) ==
    id = None \/
        (/\ h[id].info.sum = MakeInfo(InfoOf(h, h[id].left), h[id].val,
                                      InfoOf(h, h[id].right)).sum
                             + h[id].info.lz * Size(h, id)
         /\ Recomputable(h, h[id].left)
         /\ Recomputable(h, h[id].right))

\* C26: with the manager M, after every public operation that completes, iter
\* and the other queries included, the sum in every reachable node's info is
\* the sum of the logical values of its subtree: a pending amount has reached
\* each child's sum once per element of the child's subtree
InfoIsSubtreeSum ==
    ~aborted => \A t \in Slots : Present(t) => Recomputable(heap, trees[t].root)

\* C27: NodeWrapper::split returns (None, None) for an empty input and for no
\* other; of an input that is not empty it returns (None, the handle) at index
\* 0 and (the handle, None) at index len > 0, and in both cases the heap is as
\* it was: no node created, copied or written
SplitBoundaries ==
    \A t \in Slots, dbg \in BOOLEAN : (Present(t) /\ trees[t].len >= 0) =>
        IF trees[t].root = None
        THEN \A index \in 0..MaxLen :
                 NWSplit(dbg, heap, None, trees[t].len, index)
                     = [ok |-> TRUE, h |-> heap, l |-> None, r |-> None]
        ELSE /\ NWSplit(dbg, heap, trees[t].root, trees[t].len, 0)
                    = [ok |-> TRUE, h |-> heap, l |-> None, r |-> trees[t].root]
             /\ trees[t].len > 0 =>
                    NWSplit(dbg, heap, trees[t].root, trees[t].len, trees[t].len)
                        = [ok |-> TRUE, h |-> heap, l |-> trees[t].root, r |-> None]
             /\ \A index \in 0..trees[t].len :
                    With(NWSplit(dbg, heap, trees[t].root, trees[t].len, index), LAMBDA r :
                        r.ok => (r.l # None \/ r.r # None))

\* split(0) has returned a tree of three elements whose root has a lazy amount
\* and a reversal pending
SplitAtZero ==
    /\ last.op = "split" /\ last.ok /\ last.a = 0
    /\ trees[last.t].root = None /\ trees[last.t].len = 0
    /\ \E u \in Slots :
           /\ Present(u) /\ trees[u].len = 3
           /\ heap[trees[u].root].rev /\ heap[trees[u].root].info.lz # 0

\* C28: a public operation called within its documented constraints (index <=
\* len for insert, index < len for remove and the index operator, a range inside
\* 0..len for prod) on a tree reached by such calls completes, whatever the
\* coin flips: no unwrap of a missing child, no underflow of a length
CallsComplete == ~aborted

\* C29: while an iterator is alive, the number it reports through len() and
\* size_hint() is the number of items it has yet to yield: the tree's len() at
\* first, one less after each next(), 0 when it is exhausted
IterLenCountsRest ==
    (it # NoIter /\ ~aborted) =>
        /\ it.n = trees[it.t].len - Len(it.out)
        /\ it.stack = <<>> => it.n = 0

\* C30: trees that share nodes are sequences of their own: t.clone().merge(t)
\* shows the elements of t twice over with twice its len(), and after a later
\* reverse or apply on the merged tree every tree still shows what a plain list
\* shows that went through the calls made on that tree
SharersIndependent ==
    /\ ~aborted
    /\ \A t \in Slots, dbg \in Builds : Present(t) =>
           /\ trees[t].len = Len(ghost[t])
           /\ ObsSeq(dbg, heap, trees[t]) = Boxed(ghost[t])
           /\ ObsProd(dbg, heap, trees[t]) = ListProd(ghost[t])

====
